---- MODULE Spec2Model ----
(***************************************************************************)
(* QMail encryption core: the simulated Key Manager (MockQKDClient) with   *)
(* its persisted key store, the four-level EncryptionEngine, the           *)
(* MessageCipher envelope codec and the AttachmentHandler.                 *)
(*                                                                         *)
(* Bytes are integers 0..255, byte strings are sequences of bytes, text is *)
(* a sequence of Unicode code points.  A key id                            *)
(* "MOCK-KEY-{n:08d}-{YYYYmmddHHMMSS}" is the pair <<n, second>>.          *)
(***************************************************************************)
EXTENDS Integers, Sequences, FiniteSets, TLC

(***************************************************************************)
(* Bounds of the model.                                                    *)
(***************************************************************************)
MaxKeys == 2
MaxClock == 1
NSeeds == 2
MaxEnvs == 2

(***************************************************************************)
(* Program constants.                                                      *)
(***************************************************************************)
DefaultKeySize == 256
BlockSize == 16
AesKeyLen == 32

QUANTUM_OTP == 1
QUANTUM_AES == 2
POST_QUANTUM == 3
CLASSICAL == 4
SecurityLevel == {QUANTUM_OTP, QUANTUM_AES, POST_QUANTUM, CLASSICAL}

LevelName(l) ==
    CASE l = QUANTUM_OTP -> "QUANTUM_OTP"
      [] l = QUANTUM_AES -> "QUANTUM_AES"
      [] l = POST_QUANTUM -> "POST_QUANTUM"
      [] l = CLASSICAL -> "CLASSICAL"

(***************************************************************************)
(* Generic helpers on sequences and finite maps.                           *)
(***************************************************************************)
Max(a, b) == IF a >= b THEN a ELSE b

Min(a, b) == IF a <= b THEN a ELSE b

Take(s, n) == SubSeq(s, 1, Min(n, Len(s)))

Drop(s, n) == SubSeq(s, n + 1, Len(s))

\* the sequence with the elements of f, built once (f has domain 1..n)
AsSeq(f) == f \o <<>>

EmptyMap == [x \in {} |-> 0]

MapPut(f, k, v) == [x \in (DOMAIN f) \cup {k} |-> IF x = k THEN v ELSE f[x]]

MapDel(f, k) == [x \in (DOMAIN f) \ {k} |-> f[x]]

RECURSIVE BitXor(_, _)
BitXor(a, b) ==
    IF a = 0 THEN b
    ELSE IF b = 0 THEN a
    ELSE (((a % 2) + (b % 2)) % 2) + (2 * BitXor(a \div 2, b \div 2))

\* faulty variant of the byte-wise XOR: bytes are added modulo 256
MutXorZipAdd(a, b) == AsSeq([i \in 1..Min(Len(a), Len(b)) |-> (a[i] + b[i]) % 256])

\* bytes(x ^ y for x, y in zip(a, b)): zip stops at the shorter sequence
XorZip(a, b) == AsSeq([i \in 1..Min(Len(a), Len(b)) |-> BitXor(a[i], b[i])])

(***************************************************************************)
(* str.encode('utf-8') and bytes.decode('utf-8').                          *)
(***************************************************************************)
EncodeCodePoint(cp) ==
    IF cp < 128 THEN <<cp>>
    ELSE IF cp < 2048 THEN <<192 + (cp \div 64), 128 + (cp % 64)>>
    ELSE IF cp < 65536 THEN
        <<224 + (cp \div 4096), 128 + ((cp \div 64) % 64), 128 + (cp % 64)>>
    ELSE <<240 + (cp \div 262144), 128 + ((cp \div 4096) % 64),
           128 + ((cp \div 64) % 64), 128 + (cp % 64)>>

RECURSIVE Utf8Encode(_)
Utf8Encode(text) ==
    IF text = <<>> THEN <<>>
    ELSE EncodeCodePoint(Head(text)) \o Utf8Encode(Tail(text))

IsCont(b) == b >= 128 /\ b < 192

\* [ok |-> TRUE, val |-> text] or [ok |-> FALSE, val |-> <<>>] (UnicodeDecodeError);
\* acc is the text decoded so far
RECURSIVE Utf8DecodeFrom(_, _)
Utf8DecodeFrom(b, acc) ==
    IF b = <<>> THEN [ok |-> TRUE, val |-> acc]
    ELSE LET h == b[1]
             n == IF h < 128 THEN 1
                  ELSE IF h >= 194 /\ h < 224 THEN 2
                  ELSE IF h >= 224 /\ h < 240 THEN 3
                  ELSE IF h >= 240 /\ h < 245 THEN 4
                  ELSE 0
         IN IF n = 0 \/ Len(b) < n \/ (\E i \in 2..n : ~IsCont(b[i]))
            THEN [ok |-> FALSE, val |-> <<>>]
            ELSE LET cp == CASE n = 1 -> h
                             [] n = 2 -> (h - 192) * 64 + (b[2] - 128)
                             [] n = 3 -> (h - 224) * 4096 + (b[2] - 128) * 64
                                         + (b[3] - 128)
                             [] n = 4 -> (h - 240) * 262144 + (b[2] - 128) * 4096
                                         + (b[3] - 128) * 64 + (b[4] - 128)
                     overlong == (n = 3 /\ cp < 2048) \/ (n = 4 /\ cp < 65536)
                 IN IF overlong THEN [ok |-> FALSE, val |-> <<>>]
                    ELSE Utf8DecodeFrom(Drop(b, n), Append(acc, cp))

Utf8Decode(b) == Utf8DecodeFrom(b, <<>>)

(***************************************************************************)
(* base64.b64encode(...).decode('utf-8') and base64.b64decode: the text is *)
(* the sequence of the ASCII code points of the alphabet characters.       *)
(***************************************************************************)
B64Char(i) ==
    IF i < 26 THEN 65 + i
    ELSE IF i < 52 THEN 97 + (i - 26)
    ELSE IF i < 62 THEN 48 + (i - 52)
    ELSE IF i = 62 THEN 43
    ELSE 47

B64PadChar == 61

B64Index(c) ==
    IF c >= 65 /\ c <= 90 THEN c - 65
    ELSE IF c >= 97 /\ c <= 122 THEN c - 97 + 26
    ELSE IF c >= 48 /\ c <= 57 THEN c - 48 + 52
    ELSE IF c = 43 THEN 62
    ELSE IF c = 47 THEN 63
    ELSE -1

RECURSIVE B64Encode(_)
B64Encode(b) ==
    IF b = <<>> THEN <<>>
    ELSE IF Len(b) = 1 THEN
        <<B64Char(b[1] \div 4), B64Char((b[1] % 4) * 16), B64PadChar, B64PadChar>>
    ELSE IF Len(b) = 2 THEN
        <<B64Char(b[1] \div 4), B64Char((b[1] % 4) * 16 + (b[2] \div 16)),
          B64Char((b[2] % 16) * 4), B64PadChar>>
    ELSE <<B64Char(b[1] \div 4), B64Char((b[1] % 4) * 16 + (b[2] \div 16)),
           B64Char((b[2] % 16) * 4 + (b[3] \div 64)), B64Char(b[3] % 64)>>
         \o B64Encode(Drop(b, 3))

\* [ok |-> TRUE, val |-> bytes] or [ok |-> FALSE, val |-> <<>>] (binascii.Error);
\* acc is the bytes decoded so far
RECURSIVE B64DecodeFrom(_, _)
B64DecodeFrom(s, acc) ==
    IF s = <<>> THEN [ok |-> TRUE, val |-> acc]
    ELSE IF Len(s) < 4 THEN [ok |-> FALSE, val |-> <<>>]
    ELSE LET a == B64Index(s[1])
             b == B64Index(s[2])
             c == B64Index(s[3])
             d == B64Index(s[4])
         IN IF a < 0 \/ b < 0 THEN [ok |-> FALSE, val |-> <<>>]
            ELSE IF s[3] = B64PadChar /\ s[4] = B64PadChar /\ Len(s) = 4
                 THEN [ok |-> TRUE, val |-> Append(acc, a * 4 + (b \div 16))]
            ELSE IF c >= 0 /\ s[4] = B64PadChar /\ Len(s) = 4
                 THEN [ok |-> TRUE,
                       val |-> acc \o <<a * 4 + (b \div 16),
                                        (b % 16) * 16 + (c \div 4)>>]
            ELSE IF c < 0 \/ d < 0 THEN [ok |-> FALSE, val |-> <<>>]
            ELSE B64DecodeFrom(Drop(s, 4),
                               acc \o <<a * 4 + (b \div 16),
                                        (b % 16) * 16 + (c \div 4),
                                        (c % 4) * 64 + d>>)

B64Decode(s) == B64DecodeFrom(s, <<>>)

(***************************************************************************)
(* Library primitives used by the engine.  The random sources              *)
(* (secrets.token_bytes, os.urandom) return one of NSeeds byte strings of  *)
(* the requested length; SHA-256 and the AES block transform are stood in  *)
(* for by a deterministic digest and a keyed, invertible byte-wise block   *)
(* transform, so that modes, padding and the tag are computed as the code  *)
(* composes them.                                                          *)
(***************************************************************************)
Seeds == 1..NSeeds

TokenBytes(n, seed) == AsSeq([i \in 1..n |-> (seed * 37 + i * 11) % 256])

RECURSIVE Fold(_, _)
Fold(s, h) == IF s = <<>> THEN h ELSE Fold(Tail(s), (h * 33 + Head(s)) % 65521)

\* hashlib.sha256(key).digest()[:32]
Sha256(k) ==
    LET h == Fold(k, 5381 + Len(k))
    IN AsSeq([i \in 1..AesKeyLen |-> ((h \div (1 + (i % 7))) + i * 29) % 256])

BlockEnc(k, b) ==
    AsSeq([i \in 1..Len(b) |-> (b[i] + k[i] + k[i + BlockSize]) % 256])

BlockDec(k, b) ==
    AsSeq([i \in 1..Len(b) |-> (b[i] + 512 - k[i] - k[i + BlockSize]) % 256])

\* Crypto.Util.Padding.pad(data, 16)
Pad(p) ==
    LET n == BlockSize - (Len(p) % BlockSize)
    IN p \o AsSeq([i \in 1..n |-> n])

\* Crypto.Util.Padding.unpad(data, 16): ValueError on a malformed padding
Unpad(p) ==
    IF Len(p) = 0 \/ Len(p) % BlockSize # 0
    THEN [ok |-> FALSE, err |-> "ValueError", val |-> <<>>]
    ELSE LET n == p[Len(p)]
         IN IF n < 1 \/ n > BlockSize
               \/ (\E i \in (Len(p) - n + 1)..Len(p) : p[i] # n)
            THEN [ok |-> FALSE, err |-> "ValueError", val |-> <<>>]
            ELSE [ok |-> TRUE, err |-> "", val |-> Take(p, Len(p) - n)]

RECURSIVE CbcEncrypt(_, _, _)
CbcEncrypt(k, prev, p) ==
    IF p = <<>> THEN <<>>
    ELSE LET c == BlockEnc(k, XorZip(Take(p, BlockSize), prev))
         IN c \o CbcEncrypt(k, c, Drop(p, BlockSize))

RECURSIVE CbcDecrypt(_, _, _)
CbcDecrypt(k, prev, c) ==
    IF c = <<>> THEN <<>>
    ELSE LET b == Take(c, BlockSize)
         IN XorZip(BlockDec(k, b), prev) \o CbcDecrypt(k, b, Drop(c, BlockSize))

\* counter-mode keystream of the AEAD mode: block j encrypts iv + j
RECURSIVE GcmStream(_, _, _, _)
GcmStream(k, iv, j, n) ==
    IF n <= 0 THEN <<>>
    ELSE Take(BlockEnc(k, AsSeq([i \in 1..BlockSize |-> (iv[i] + j) % 256])), n)
         \o GcmStream(k, iv, j + 1, n - BlockSize)

GcmTag(k, iv, c) ==
    LET h == Fold(c, Len(c))
    IN BlockEnc(k, AsSeq([i \in 1..BlockSize |-> (iv[i] + (h \div i) + h) % 256]))

Fail(e) == [ok |-> FALSE, err |-> e, ct |-> <<>>, md |-> EmptyMap]

(***************************************************************************)
(* EncryptionEngine: the four schemes and the dispatch.                    *)
(***************************************************************************)
\* faulty variant of _encrypt_otp: a short key is used as far as it reaches
MutEncryptOtpTruncate(plaintext, key) ==
    LET n == Min(Len(plaintext), Len(key))
    IN [ok |-> TRUE, err |-> "",
        ct |-> XorZip(plaintext, Take(key, Len(plaintext))),
        md |-> [security_level |-> QUANTUM_OTP, algorithm |-> "OTP",
                plaintext_length |-> n]]

\* _encrypt_otp: XOR with the key, which must cover the plaintext
EncryptOtp(plaintext, key) ==
    IF Len(key) < Len(plaintext) THEN Fail("EncryptionError")
    ELSE [ok |-> TRUE, err |-> "",
          ct |-> XorZip(plaintext, Take(key, Len(plaintext))),
          md |-> [security_level |-> QUANTUM_OTP, algorithm |-> "OTP",
                  plaintext_length |-> Len(plaintext)]]

DFail(e) == [ok |-> FALSE, err |-> e, val |-> <<>>]

MdGet(md, field, default) == IF field \in DOMAIN md THEN md[field] ELSE default

\* faulty variant of _decrypt_otp: no length test before the XOR
MutDecryptOtpNoCheck(ciphertext, key, md) ==
    LET plaintext_length == MdGet(md, "plaintext_length", Len(ciphertext))
    IN [ok |-> TRUE, err |-> "",
        val |-> XorZip(ciphertext, Take(key, plaintext_length))]

\* _decrypt_otp: the length is the one the metadata states
DecryptOtp(ciphertext, key, md) ==
    LET plaintext_length == MdGet(md, "plaintext_length", Len(ciphertext))
    IN IF Len(key) < plaintext_length THEN DFail("DecryptionError")
       ELSE [ok |-> TRUE, err |-> "",
             val |-> XorZip(ciphertext, Take(key, plaintext_length))]

EncryptQuantumAes(plaintext, quantum_key, iv) ==
    LET aes_key == Sha256(quantum_key)
    IN [ok |-> TRUE, err |-> "",
        ct |-> CbcEncrypt(aes_key, iv, Pad(plaintext)),
        md |-> [security_level |-> QUANTUM_AES, algorithm |-> "AES-256-CBC",
                iv |-> B64Encode(iv)]]

\* shared by the two CBC schemes: decode iv, decrypt, unpad
CbcOpen(aes_key, ciphertext, md) ==
    IF "iv" \notin DOMAIN md THEN DFail("KeyError")
    ELSE LET iv == B64Decode(md.iv)
         IN IF ~iv.ok THEN DFail("binascii.Error")
            ELSE IF Len(iv.val) # BlockSize \/ Len(ciphertext) % BlockSize # 0
                 THEN DFail("ValueError")
            ELSE LET u == Unpad(CbcDecrypt(aes_key, iv.val, ciphertext))
                 IN IF u.ok THEN [ok |-> TRUE, err |-> "", val |-> u.val]
                    ELSE DFail(u.err)

DecryptQuantumAes(ciphertext, quantum_key, md) ==
    CbcOpen(Sha256(quantum_key), ciphertext, md)

\* faulty variant of _encrypt_pqc: the tag is not recorded
MutEncryptPqcNoTag(plaintext, key, iv) ==
    LET pqc_key == Sha256(key)
        c == XorZip(plaintext, GcmStream(pqc_key, iv, 1, Len(plaintext)))
    IN [ok |-> TRUE, err |-> "", ct |-> c,
        md |-> [security_level |-> POST_QUANTUM, algorithm |-> "PQC-AES-GCM",
                iv |-> B64Encode(iv)]]

\* _encrypt_pqc: AES-GCM under the hashed key, the tag kept in the metadata
EncryptPqc(plaintext, key, iv) ==
    LET pqc_key == Sha256(key)
        c == XorZip(plaintext, GcmStream(pqc_key, iv, 1, Len(plaintext)))
    IN [ok |-> TRUE, err |-> "", ct |-> c,
        md |-> [security_level |-> POST_QUANTUM, algorithm |-> "PQC-AES-GCM",
                iv |-> B64Encode(iv), tag |-> B64Encode(GcmTag(pqc_key, iv, c))]]

DecryptPqc(ciphertext, key, md) ==
    IF "iv" \notin DOMAIN md \/ "tag" \notin DOMAIN md THEN DFail("KeyError")
    ELSE LET pqc_key == Sha256(key)
             iv == B64Decode(md.iv)
             tag == B64Decode(md.tag)
         IN IF ~iv.ok \/ ~tag.ok THEN DFail("binascii.Error")
            ELSE IF Len(iv.val) # BlockSize THEN DFail("ValueError")
            ELSE IF tag.val # GcmTag(pqc_key, iv.val, ciphertext)
                 THEN DFail("InvalidTag")
            ELSE [ok |-> TRUE, err |-> "",
                  val |-> XorZip(ciphertext,
                                 GcmStream(pqc_key, iv.val, 1, Len(ciphertext)))]

ClassicalKey(key) == IF Len(key) < AesKeyLen THEN Sha256(key) ELSE Take(key, AesKeyLen)

EncryptClassical(plaintext, key, iv) ==
    [ok |-> TRUE, err |-> "",
     ct |-> CbcEncrypt(ClassicalKey(key), iv, Pad(plaintext)),
     md |-> [security_level |-> CLASSICAL, algorithm |-> "AES-256-CBC",
             iv |-> B64Encode(iv)]]

DecryptClassical(ciphertext, key, md) ==
    CbcOpen(ClassicalKey(key), ciphertext, md)

\* EncryptionEngine.encrypt; iv is the value os.urandom(16) returns
EngineEncrypt(plaintext, key, level, iv) ==
    CASE level = QUANTUM_OTP -> EncryptOtp(plaintext, key)
      [] level = QUANTUM_AES -> EncryptQuantumAes(plaintext, key, iv)
      [] level = POST_QUANTUM -> EncryptPqc(plaintext, key, iv)
      [] level = CLASSICAL -> EncryptClassical(plaintext, key, iv)
      [] OTHER -> Fail("EncryptionError")

\* EncryptionEngine.decrypt: the level is read from the metadata
EngineDecrypt(ciphertext, key, md) ==
    LET level == MdGet(md, "security_level", QUANTUM_AES)
    IN CASE level = QUANTUM_OTP -> DecryptOtp(ciphertext, key, md)
         [] level = QUANTUM_AES -> DecryptQuantumAes(ciphertext, key, md)
         [] level = POST_QUANTUM -> DecryptPqc(ciphertext, key, md)
         [] level = CLASSICAL -> DecryptClassical(ciphertext, key, md)
         [] OTHER -> DFail("ValueError")

(***************************************************************************)
(* State.                                                                  *)
(***************************************************************************)
VARIABLES
    disk,       \* the key store file: exists, keys (id -> base64 text), keys_generated
    client,     \* per MockQKDClient object: key_store (id -> bytes), keys_generated
    now,        \* the wall clock, in seconds
    issued,     \* history: the key records get_key has returned, in order
    live,       \* history: ids generated and neither closed nor cleared since
    closedEver, \* history: ids for which some close_key returned True
    closedBy,   \* history: per client object, the ids it closed with True
    envs,       \* the encrypted packages produced, each with what it was made from
    km,         \* the remote Key Manager service: keys (key_ID -> bytes) and its counter n
    ret         \* the last call and what it returned

vars == <<disk, client, now, issued, live, closedEver, closedBy, envs, km, ret>>

Clients == {1, 2}

persist_keys == TRUE

\* f"MOCK-KEY-{keys_generated:08d}-{now:%Y%m%d%H%M%S}"
KeyId(n, t) == <<n, t>>

NewClient == [key_store |-> EmptyMap, keys_generated |-> 0]

\* faulty variant of _load_keys: keys_generated is not restored
MutLoadKeysNoCounter(st, d) ==
    IF d.exists
    THEN [key_store |-> [id \in DOMAIN d.keys |-> B64Decode(d.keys[id]).val],
          keys_generated |-> st.keys_generated]
    ELSE st

\* json.load, base64-decoding every entry; a missing file leaves the client as built
LoadKeys(st, d) ==
    IF d.exists
    THEN [key_store |-> [id \in DOMAIN d.keys |-> B64Decode(d.keys[id]).val],
          keys_generated |-> d.keys_generated]
    ELSE st

\* faulty variant of _save_keys: only the first bytes of each key are written
MutSaveKeysTruncate(st, d) ==
    [exists |-> TRUE,
     keys |-> [id \in DOMAIN st.key_store |-> B64Encode(Take(st.key_store[id], 3))],
     keys_generated |-> st.keys_generated]

\* the file after _save_keys: the client's whole in-memory store replaces it
SaveKeys(st, d) ==
    IF ~persist_keys THEN d
    ELSE [exists |-> TRUE,
          keys |-> [id \in DOMAIN st.key_store |-> B64Encode(st.key_store[id])],
          keys_generated |-> st.keys_generated]

\* faulty variant of __init__: the store file is not read
MutConstructFresh(d) == NewClient

\* MockQKDClient.__init__
Construct(d) == IF persist_keys THEN LoadKeys(NewClient, d) ELSE NewClient

\* the loop of get_key: one key per seed; returns the client and the QKDKey list
RECURSIVE GetKeyLoop(_, _, _, _, _)
GetKeyLoop(st, key_size, seeds, t, keys) ==
    IF seeds = <<>> THEN [st |-> st, keys |-> keys]
    ELSE LET key_bytes == TokenBytes(key_size \div 8, Head(seeds))
             n == st.keys_generated + 1
             key_id == KeyId(n, t)
             qkd_key == [key_id |-> key_id, key |-> key_bytes, key_size |-> key_size]
         IN GetKeyLoop([key_store |-> MapPut(st.key_store, key_id, key_bytes),
                        keys_generated |-> n],
                       key_size, Tail(seeds), t, Append(keys, qkd_key))

\* get_key(key_size, number_of_keys) with the random outcomes seeds
GetKey(st, key_size, seeds, t) == GetKeyLoop(st, key_size, seeds, t, <<>>)

\* get_key_by_id: the QKDKey, or None
GetKeyById(st, key_id) ==
    IF key_id \in DOMAIN st.key_store
    THEN [found |-> TRUE, key_id |-> key_id, key |-> st.key_store[key_id],
          key_size |-> Len(st.key_store[key_id]) * 8]
    ELSE [found |-> FALSE, key_id |-> key_id, key |-> <<>>, key_size |-> 0]

\* faulty variant of close_key: reports True and keeps the key
MutCloseKeyKeeps(st, key_id) ==
    [st |-> st, ok |-> key_id \in DOMAIN st.key_store]

\* faulty variant of close_key: a missing id is reported as closed
MutCloseKeyMissingOk(st, key_id) ==
    [st |-> [st EXCEPT !.key_store = MapDel(@, key_id)], ok |-> TRUE]

\* close_key: the client after the call and the returned flag
CloseKey(st, key_id) ==
    IF key_id \in DOMAIN st.key_store
    THEN [st |-> [st EXCEPT !.key_store = MapDel(@, key_id)], ok |-> TRUE]
    ELSE [st |-> st, ok |-> FALSE]

IdsOf(keys) == {keys[i].key_id : i \in 1..Len(keys)}

IssuedIds == IdsOf(issued)

\* ids a caller may present: every id issued so far and one never issued
KnownIds == IssuedIds \cup {KeyId(0, 0)}

\* get_key calls a caller may make: key_size in bits, one random outcome per key
Requests ==
    {[key_size |-> 64, seeds |-> <<1>>], [key_size |-> 100, seeds |-> <<NSeeds>>],
     [key_size |-> 64, seeds |-> <<NSeeds, 1>>]}

Init ==
    /\ disk = [exists |-> FALSE, keys |-> EmptyMap, keys_generated |-> 0]
    /\ client = [c \in Clients |-> NewClient]
    /\ now = 0
    /\ issued = <<>>
    /\ live = {}
    /\ closedEver = {}
    /\ closedBy = [c \in Clients |-> {}]
    /\ envs = <<>>
    /\ km = [keys |-> EmptyMap, n |-> 0]
    /\ ret = [op |-> "init"]

(***************************************************************************)
(* Key Manager operations.                                                 *)
(***************************************************************************)
Tick ==
    /\ now < MaxClock
    /\ now' = now + 1
    /\ UNCHANGED <<km, disk, client, issued, live, closedEver, closedBy, envs, ret>>

\* a new MockQKDClient object replaces client c (process restart, new handler)
Restart(c) ==
    /\ client' = [client EXCEPT ![c] = Construct(disk)]
    /\ closedBy' = [closedBy EXCEPT ![c] = {}]
    /\ ret' = [op |-> "restart", client |-> c]
    /\ UNCHANGED <<km, disk, now, issued, live, closedEver, envs>>

Generate(c) ==
    \E rq \in Requests :
        /\ Len(issued) + Len(rq.seeds) <= MaxKeys
        /\ LET r == GetKey(client[c], rq.key_size, rq.seeds, now)
           IN /\ client' = [client EXCEPT ![c] = r.st]
              /\ disk' = SaveKeys(r.st, disk)
              /\ issued' = issued \o r.keys
              /\ live' = live \cup IdsOf(r.keys)
              /\ ret' = [op |-> "generate", client |-> c, keys |-> r.keys,
                         before |-> IssuedIds, prev |-> ret.op]
        /\ UNCHANGED <<km, now, closedEver, closedBy, envs>>

Retrieve(c) ==
    \E key_id \in KnownIds :
        /\ ret' = [op |-> "retrieve", client |-> c, key_id |-> key_id,
                   res |-> GetKeyById(client[c], key_id),
                   closedBefore |-> key_id \in closedEver,
                   closedByMe |-> key_id \in closedBy[c]]
        /\ UNCHANGED <<km, disk, client, now, issued, live, closedEver, closedBy, envs>>

Close(c) ==
    \E key_id \in KnownIds :
        LET r == CloseKey(client[c], key_id)
        IN /\ client' = [client EXCEPT ![c] = r.st]
           /\ disk' = IF r.ok THEN SaveKeys(r.st, disk) ELSE disk
           /\ live' = IF r.ok THEN live \ {key_id} ELSE live
           /\ closedEver' = IF r.ok THEN closedEver \cup {key_id} ELSE closedEver
           /\ closedBy' = IF r.ok THEN [closedBy EXCEPT ![c] = @ \cup {key_id}]
                          ELSE closedBy
           /\ ret' = [op |-> "close", client |-> c, key_id |-> key_id, ok |-> r.ok]
           /\ UNCHANGED <<km, now, issued, envs>>

ClearAll(c) ==
    LET st == [client[c] EXCEPT !.key_store = EmptyMap]
    IN /\ client' = [client EXCEPT ![c] = st]
       /\ disk' = SaveKeys(st, disk)
       /\ live' = {}
       /\ ret' = [op |-> "clear", client |-> c]
       /\ UNCHANGED <<km, now, issued, closedEver, closedBy, envs>>

KMStep(c) == Generate(c) \/ Retrieve(c) \/ Close(c) \/ ClearAll(c) \/ Restart(c)

\* several client objects over one store file, their lifetimes overlapping
NextKM == Tick \/ \E c \in Clients : KMStep(c)

SpecKM == Init /\ [][NextKM]_vars

\* one client object at a time: a restart replaces it
NextKMSeq == Tick \/ KMStep(1)

SpecKMSeq == Init /\ [][NextKMSeq]_vars

\* how the write of the store file ends: done, refused before the file is
\* touched (mkdir or open fails), or broken off after open(..., 'w') emptied it
IoOutcomes == {"ok", "refused", "torn"}

\* _save_keys when the write may fail: the file afterwards, and whether an
\* exception leaves the method; the except clause logs and returns.  A torn
\* file loads like one without entries: _load_keys falls back to an empty
\* store and keeps keys_generated = 0.
SaveKeysIo(st, d, io) ==
    [disk |-> IF io = "ok" THEN SaveKeys(st, d)
              ELSE IF io = "refused" THEN d
              ELSE [exists |-> TRUE, keys |-> EmptyMap, keys_generated |-> 0],
     raised |-> FALSE]

\* get_key with a write that may fail
GenerateIo(c) ==
    \E rq \in Requests, io \in IoOutcomes :
        /\ Len(issued) + Len(rq.seeds) <= MaxKeys
        /\ LET r == GetKey(client[c], rq.key_size, rq.seeds, now)
               w == SaveKeysIo(r.st, disk, io)
           IN /\ client' = [client EXCEPT ![c] = r.st]
              /\ disk' = w.disk
              /\ issued' = IF w.raised THEN issued ELSE issued \o r.keys
              /\ live' = live \cup IdsOf(r.keys)
              /\ ret' = [op |-> "generate", client |-> c,
                         keys |-> IF w.raised THEN <<>> ELSE r.keys,
                         before |-> IssuedIds, prev |-> ret.op,
                         io |-> io, raised |-> w.raised]
        /\ UNCHANGED <<km, now, closedEver, closedBy, envs>>

\* close_key with a write that may fail
CloseIo(c) ==
    \E key_id \in KnownIds, io \in IoOutcomes :
        LET r == CloseKey(client[c], key_id)
            w == IF r.ok THEN SaveKeysIo(r.st, disk, io)
                 ELSE [disk |-> disk, raised |-> FALSE]
        IN /\ client' = [client EXCEPT ![c] = r.st]
           /\ disk' = w.disk
           /\ live' = IF r.ok THEN live \ {key_id} ELSE live
           /\ closedEver' = IF r.ok /\ ~w.raised THEN closedEver \cup {key_id}
                            ELSE closedEver
           /\ closedBy' = IF r.ok /\ ~w.raised
                          THEN [closedBy EXCEPT ![c] = @ \cup {key_id}]
                          ELSE closedBy
           /\ ret' = [op |-> "close", client |-> c, key_id |-> key_id,
                      ok |-> r.ok, io |-> IF r.ok THEN io ELSE "none",
                      raised |-> w.raised]
           /\ UNCHANGED <<km, now, issued, envs>>

\* one client object at a time over a store whose writes may fail
NextKMFault == Tick \/ GenerateIo(1) \/ CloseIo(1) \/ Retrieve(1) \/ Restart(1)

SpecKMFault == Init /\ [][NextKMFault]_vars

\* faulty variant of get_key_with_key_ids: the loop ends at the first id
\* that is not found
RECURSIVE MutGetKeyWithKeyIdsStops(_, _)
MutGetKeyWithKeyIdsStops(st, key_ids) ==
    IF key_ids = <<>> THEN <<>>
    ELSE LET key == GetKeyById(st, Head(key_ids))
         IN IF key.found
            THEN <<key>> \o MutGetKeyWithKeyIdsStops(st, Tail(key_ids))
            ELSE <<>>

\* get_key_with_key_ids: get_key_by_id for each id in turn, None results left out
RECURSIVE GetKeyWithKeyIds(_, _)
GetKeyWithKeyIds(st, key_ids) ==
    IF key_ids = <<>> THEN <<>>
    ELSE LET key == GetKeyById(st, Head(key_ids))
         IN (IF key.found THEN <<key>> ELSE <<>>)
            \o GetKeyWithKeyIds(st, Tail(key_ids))

\* faulty variant of get_status: the count is that of the keys now stored
MutGetStatusCountsStored(st) ==
    [status |-> "operational", mode |-> "simulation",
     keys_generated |-> Cardinality(DOMAIN st.key_store),
     keys_stored |-> Cardinality(DOMAIN st.key_store)]

\* get_status (the timestamp left out)
GetStatus(st) ==
    [status |-> "operational", mode |-> "simulation",
     keys_generated |-> st.keys_generated,
     keys_stored |-> Cardinality(DOMAIN st.key_store)]

\* key_ids arguments of get_key_with_key_ids: every list of up to two known
\* ids, repeats included, and every list of three different ones
KeyIdLists ==
    UNION {[1..n -> KnownIds] : n \in 0..2}
        \cup {s \in [1..3 -> KnownIds] : \A i, j \in 1..3 : i # j => s[i] # s[j]}

RetrieveMany(c) ==
    \E key_ids \in KeyIdLists :
        /\ ret' = [op |-> "retrieve_many", client |-> c, key_ids |-> AsSeq(key_ids),
                   res |-> GetKeyWithKeyIds(client[c], AsSeq(key_ids))]
        /\ UNCHANGED <<km, disk, client, now, issued, live, closedEver, closedBy, envs>>

Status(c) ==
    /\ ret' = [op |-> "status", client |-> c, res |-> GetStatus(client[c]),
               prev |-> ret.op]
    /\ UNCHANGED <<km, disk, client, now, issued, live, closedEver, closedBy, envs>>

\* one client object at a time, with the read-only calls of the interface
NextKMQuery ==
    \/ Tick
    \/ Generate(1)
    \/ Close(1)
    \/ ClearAll(1)
    \/ Restart(1)
    \/ Retrieve(1)
    \/ RetrieveMany(1)
    \/ Status(1)

SpecKMQuery == Init /\ [][NextKMQuery]_vars

(***************************************************************************)
(* MessageCipher: encrypt_message and decrypt_message over a client.       *)
(***************************************************************************)
Rep(cp, n) == AsSeq([i \in 1..n |-> cp])

\* texts a caller may send: empty, mixed 1..4-byte code points, and one whose
\* UTF-8 form (36 bytes) is longer than a 256-bit key
Messages == {<<>>, <<72, 233, 8364, 128640>>, Rep(20320, 12)}

\* faulty variant: the standard size at every level
MutRequiredKeySizeFixed(plaintext, level) == DefaultKeySize

\* the key size encrypt_message asks for, in bits
RequiredKeySize(plaintext, level) ==
    IF level = QUANTUM_OTP THEN Max(Len(plaintext) * 8, DefaultKeySize)
    ELSE DefaultKeySize

\* faulty variant of the binding: an id already in the store is reused
MutBindFirstKey(st, key) == IF DOMAIN st.key_store = {} THEN key.key_id
                            ELSE CHOOSE id \in DOMAIN st.key_store : TRUE

\* the id written into the package: that of the key just obtained
BoundKeyId(st, key) == key.key_id

\* encrypt_message: seed is the outcome of the random sources of the call
EncryptMessage(st, d, message, level, recipient_id, seed, t) ==
    LET plaintext == Utf8Encode(message)
        key_size == RequiredKeySize(plaintext, level)
        g == GetKey(st, key_size, <<seed>>, t)
        d2 == SaveKeys(g.st, d)
        qkd_key == g.keys[1]
        e == EngineEncrypt(plaintext, qkd_key.key, level, TokenBytes(BlockSize, seed + 1))
    IN IF g.keys = <<>>
       THEN [ok |-> FALSE, err |-> "Exception", st |-> g.st, disk |-> d2,
             keys |-> g.keys, pkg |-> EmptyMap]
       ELSE IF ~e.ok
       THEN [ok |-> FALSE, err |-> e.err, st |-> g.st, disk |-> d2,
             keys |-> g.keys, pkg |-> EmptyMap]
       ELSE [ok |-> TRUE, err |-> "", st |-> g.st, disk |-> d2, keys |-> g.keys,
             pkg |-> [ciphertext |-> B64Encode(e.ct),
                      key_id |-> BoundKeyId(st, qkd_key),
                      security_level |-> level,
                      security_level_name |-> LevelName(level),
                      metadata |-> e.md,
                      recipient_id |-> recipient_id]]

\* faulty variant of the decode: one character per byte
MutDecodeLatin1(b) == [ok |-> TRUE, val |-> b]

\* bytes.decode('utf-8') of the engine's output
DecodeText(b) == Utf8Decode(b)

\* decrypt_message: the text, or the exception raised
DecryptMessage(st, pkg) ==
    LET ciphertext == B64Decode(pkg.ciphertext)
        qkd_key == GetKeyById(st, pkg.key_id)
    IN IF ~ciphertext.ok THEN DFail("binascii.Error")
       ELSE IF ~qkd_key.found THEN DFail("Exception")
       ELSE LET p == EngineDecrypt(ciphertext.val, qkd_key.key, pkg.metadata)
            IN IF ~p.ok THEN DFail(p.err)
               ELSE LET m == DecodeText(p.val)
                    IN IF m.ok THEN [ok |-> TRUE, err |-> "", val |-> m.val]
                       ELSE DFail("UnicodeDecodeError")

EnvKeyIds == {envs[i].pkg.key_id : i \in 1..Len(envs)}

\* encrypt_message on the cipher of client c, while fewer than cap packages
\* are kept
EncryptUpTo(c, cap) ==
    \E message \in Messages, level \in SecurityLevel, seed \in Seeds :
        /\ Len(envs) < cap
        /\ \E r \in {EncryptMessage(client[c], disk, message, level, "", seed, now)} :
              /\ client' = [client EXCEPT ![c] = r.st]
              /\ disk' = r.disk
              /\ issued' = issued \o r.keys
              /\ live' = live \cup IdsOf(r.keys)
              /\ envs' = IF r.ok
                         THEN Append(envs, [pkg |-> r.pkg, msg |-> message,
                                            kind |-> "body", send |-> 0])
                         ELSE envs
              /\ ret' = [op |-> "encrypt", client |-> c, ok |-> r.ok, err |-> r.err,
                         keys |-> r.keys, before |-> IssuedIds, prev |-> ret.op]
        /\ UNCHANGED <<km, now, closedEver, closedBy>>

Encrypt(c) == EncryptUpTo(c, MaxEnvs)

Decrypt(c) ==
    \E i \in 1..Len(envs) :
        /\ envs[i].kind = "body"
        /\ ret' = [op |-> "decrypt", client |-> c, idx |-> i,
                   res |-> DecryptMessage(client[c], envs[i].pkg),
                   keyLive |-> envs[i].pkg.key_id \in live]
        /\ UNCHANGED <<km, disk, client, now, issued, live, closedEver, closedBy, envs>>

\* one MessageCipher at a time over the store, with direct key manager calls
NextCipher ==
    \/ Tick
    \/ Encrypt(1)
    \/ Decrypt(1)
    \/ Close(1)
    \/ Restart(1)

SpecCipher == Init /\ [][NextCipher]_vars

\* packages handed to decrypt_message: as encrypt_message returned it, with
\* the top-level level fields naming the next level (4 -> 1), or with the
\* level field of the metadata missing
PkgVariants(pkg) ==
    {pkg,
     [pkg EXCEPT !.security_level = (@ % 4) + 1,
                 !.security_level_name = LevelName((pkg.security_level % 4) + 1)],
     [pkg EXCEPT !.metadata = [f \in (DOMAIN pkg.metadata) \ {"security_level"}
                                  |-> pkg.metadata[f]]]}

\* faulty variant: the key is closed once a message was decrypted with it
MutDecryptMessageCloses(st, d, pkg) ==
    IF DecryptMessage(st, pkg).ok
    THEN [st |-> CloseKey(st, pkg.key_id).st,
          disk |-> SaveKeys(CloseKey(st, pkg.key_id).st, d)]
    ELSE [st |-> st, disk |-> d]

\* the client and the store file after decrypt_message: its only call on the
\* client is get_key_by_id, which reads key_store
DecryptMessageStore(st, d, pkg) == [st |-> st, disk |-> d]

\* envelopes kept by the codec-level specification
MaxKept == MaxEnvs - 1

EncryptOne(c) == EncryptUpTo(c, MaxKept)

\* decrypt_message(encrypted_package) on the cipher of client c
DecryptPackage(c) ==
    \E i \in 1..Len(envs) :
        \E pkg \in PkgVariants(envs[i].pkg) :
            /\ envs[i].kind = "body"
            /\ \E after \in {DecryptMessageStore(client[c], disk, pkg)} :
                  /\ client' = [client EXCEPT ![c] = after.st]
                  /\ disk' = after.disk
            /\ ret' = [op |-> "decrypt_package", client |-> c, idx |-> i,
                       pkg |-> pkg, asMade |-> pkg = envs[i].pkg,
                       res |-> DecryptMessage(client[c], pkg)]
            /\ UNCHANGED <<km, now, issued, live, closedEver, closedBy, envs>>

\* one MessageCipher at a time, called with packages as made and relabelled
NextCodec ==
    \/ EncryptOne(1)
    \/ DecryptPackage(1)
    \/ Close(1)
    \/ Restart(1)

SpecCodec == Init /\ [][NextCodec]_vars

(***************************************************************************)
(* AttachmentHandler and the send path of the compose route.               *)
(***************************************************************************)
\* the ceiling the handler is built with (max_attachment_size), in bytes
MaxAttachmentSize == 6

Files ==
    {[filename |-> "a.txt", content |-> <<104, 105>>],
     [filename |-> "b.bin", content |-> <<0, 255, 16, 128>>]}

FileLists ==
    {<<>>,
     <<[filename |-> "a.txt", content |-> <<104, 105>>]>>,
     <<[filename |-> "b.bin", content |-> <<0, 255, 16, 128>>],
       [filename |-> "a.txt", content |-> <<104, 105>>]>>}

\* mimetypes.guess_type(filename)[0] or 'application/octet-stream'
GuessType(filename) ==
    IF filename \in {"a.txt", "d.txt", "e.txt"} THEN "text/plain"
    ELSE "application/octet-stream"

\* faulty variant of encrypt_attachment: the size is tested after encrypting
MutEncryptAttachmentLate(st, d, filename, content, level, seed, t) ==
    LET r == EncryptMessage(st, d, B64Encode(content), level, "", seed, t)
    IN IF Len(content) > MaxAttachmentSize
       THEN [ok |-> FALSE, err |-> "ValueError", st |-> r.st, disk |-> r.disk,
             keys |-> r.keys, att |-> EmptyMap]
       ELSE [ok |-> r.ok, err |-> r.err, st |-> r.st, disk |-> r.disk,
             keys |-> r.keys,
             att |-> [filename |-> filename,
                      encrypted_content |-> r.pkg.ciphertext,
                      content_type |-> GuessType(filename),
                      original_size |-> Len(content),
                      encrypted_size |-> Len(r.pkg.ciphertext),
                      key_id |-> r.pkg.key_id,
                      security_level |-> r.pkg.security_level_name,
                      metadata |-> r.pkg.metadata]]

\* encrypt_attachment on a handler whose cipher's client is st
EncryptAttachment(st, d, filename, content, level, seed, t) ==
    IF Len(content) > MaxAttachmentSize
    THEN [ok |-> FALSE, err |-> "ValueError", st |-> st, disk |-> d,
          keys |-> <<>>, att |-> EmptyMap]
    ELSE LET r == EncryptMessage(st, d, B64Encode(content), level, "", seed, t)
         IN IF ~r.ok
            THEN [ok |-> FALSE, err |-> r.err, st |-> r.st, disk |-> r.disk,
                  keys |-> r.keys, att |-> EmptyMap]
            ELSE [ok |-> TRUE, err |-> "", st |-> r.st, disk |-> r.disk,
                  keys |-> r.keys,
                  att |-> [filename |-> filename,
                           encrypted_content |-> r.pkg.ciphertext,
                           content_type |-> GuessType(filename),
                           original_size |-> Len(content),
                           encrypted_size |-> Len(r.pkg.ciphertext),
                           key_id |-> r.pkg.key_id,
                           security_level |-> r.pkg.security_level_name,
                           metadata |-> r.pkg.metadata]]

\* SecurityLevel[name].value
LevelOfName(name) == CHOOSE l \in SecurityLevel : LevelName(l) = name

\* the package decrypt_attachment rebuilds from an EncryptedAttachment
PackageOf(att) ==
    [ciphertext |-> att.encrypted_content,
     key_id |-> att.key_id,
     security_level |-> LevelOfName(att.security_level),
     security_level_name |-> att.security_level,
     metadata |-> att.metadata]

\* faulty variant of decrypt_attachment: the text is not base64-decoded
MutDecryptAttachmentNoB64(st, att) ==
    LET m == DecryptMessage(st, PackageOf(att))
    IN IF ~m.ok THEN [ok |-> FALSE, err |-> m.err, att |-> EmptyMap]
       ELSE [ok |-> TRUE, err |-> "",
             att |-> [filename |-> att.filename, content |-> m.val,
                      content_type |-> att.content_type, size |-> Len(m.val)]]

\* decrypt_attachment: the Attachment, or the exception raised
DecryptAttachment(st, att) ==
    LET m == DecryptMessage(st, PackageOf(att))
    IN IF ~m.ok THEN [ok |-> FALSE, err |-> m.err, att |-> EmptyMap]
       ELSE LET c == B64Decode(m.val)
            IN IF ~c.ok THEN [ok |-> FALSE, err |-> "binascii.Error", att |-> EmptyMap]
               ELSE [ok |-> TRUE, err |-> "",
                     att |-> [filename |-> att.filename, content |-> c.val,
                              content_type |-> att.content_type,
                              size |-> Len(c.val)]]

\* the loop of compose over the uploaded files, all through one handler
RECURSIVE EncryptFiles(_, _, _, _, _, _, _, _)
EncryptFiles(st, d, files, level, seed, t, atts, keys) ==
    IF files = <<>>
    THEN [ok |-> TRUE, st |-> st, disk |-> d, atts |-> atts, keys |-> keys]
    ELSE CHOOSE out \in
            {IF ~r.ok
             THEN [ok |-> FALSE, st |-> r.st, disk |-> r.disk, atts |-> atts,
                   keys |-> keys \o r.keys]
             ELSE EncryptFiles(r.st, r.disk, Tail(files), level, seed, t,
                               Append(atts, r.att), keys \o r.keys) :
                r \in {EncryptAttachment(st, d, Head(files).filename,
                                         Head(files).content, level, seed, t)}} :
            TRUE

AttEntries(atts, files, send) ==
    [i \in 1..Len(atts) |->
        [pkg |-> PackageOf(atts[i]), msg |-> files[i].content, kind |-> "att",
         send |-> send, att |-> atts[i]]]

\* compose, action 'send': get_email_manager() builds one MessageCipher, the
\* AttachmentHandler another; the files are encrypted first, then the body.
\* The clock may pass a second boundary before the body is encrypted.
Compose ==
    \E files \in FileLists, body \in Messages \ {<<>>}, level \in SecurityLevel,
       seedA \in Seeds, seedB \in Seeds, dt \in {0, 1} :
        /\ Len(envs) < MaxEnvs
        /\ now + dt <= MaxClock
        /\ \E manager \in {Construct(disk)}, handler \in {Construct(disk)} :
           \E ra \in {EncryptFiles(handler, disk, files, level, seedA, now,
                                   <<>>, <<>>)} :
           \E rb \in {EncryptMessage(manager, ra.disk, body, level, "", seedB,
                                     now + dt)} :
           LET send == Len(envs) + 1
           IN IF ~ra.ok
              THEN /\ disk' = ra.disk
                   /\ issued' = issued \o ra.keys
                   /\ live' = live \cup IdsOf(ra.keys)
                   /\ envs' = envs
                   /\ ret' = [op |-> "compose", ok |-> FALSE]
              ELSE /\ disk' = rb.disk
                   /\ issued' = issued \o ra.keys \o rb.keys
                   /\ live' = live \cup IdsOf(ra.keys) \cup IdsOf(rb.keys)
                   /\ envs' = IF rb.ok
                              THEN envs \o AttEntries(ra.atts, files, send)
                                   \o <<[pkg |-> rb.pkg, msg |-> body,
                                         kind |-> "body", send |-> send]>>
                              ELSE envs
                   /\ ret' = [op |-> "compose", ok |-> rb.ok]
        /\ now' = now + dt
        /\ UNCHANGED <<km, client, closedEver, closedBy>>

\* download_attachment: a new AttachmentHandler decrypts a stored attachment
Download ==
    \E i \in 1..Len(envs) :
        /\ envs[i].kind = "att"
        /\ ret' = [op |-> "download", idx |-> i,
                   res |-> DecryptAttachment(Construct(disk), envs[i].att)]
        /\ UNCHANGED <<km, disk, client, now, issued, live, closedEver, closedBy, envs>>

NextSend == Tick \/ Compose \/ Download

SpecSend == Init /\ [][NextSend]_vars

(***************************************************************************)
(* AttachmentHandler called directly: one handler at a time.               *)
(***************************************************************************)
\* files on disk handed to the handler: a short text, a binary of exactly the
\* ceiling, one byte more than the ceiling, an empty file, and a missing path
Small == [filename |-> "a.txt", exists |-> TRUE, content |-> <<104, 105>>]

AtLimit ==
    [filename |-> "b.bin", exists |-> TRUE,
     content |-> AsSeq([i \in 1..MaxAttachmentSize |-> (i * 251) % 256])]

TooBig ==
    [filename |-> "c.bin", exists |-> TRUE,
     content |-> AsSeq([i \in 1..(MaxAttachmentSize + 1) |-> (i * 83) % 256])]

Empty == [filename |-> "e.txt", exists |-> TRUE, content |-> <<>>]

Missing == [filename |-> "d.txt", exists |-> FALSE, content |-> <<>>]

Uploads == {Small, AtLimit, TooBig, Empty}

\* file_paths arguments of encrypt_multiple_files
BatchLists ==
    {<<>>, <<Small>>, <<TooBig>>, <<Small, AtLimit>>, <<Missing, Small>>,
     <<Small, TooBig, AtLimit>>, <<Small, Missing, TooBig>>,
     <<Small, AtLimit, TooBig>>}

\* encrypt_file: why tells the two ValueErrors apart by their message
EncryptFile(st, d, file, level, seed, t) ==
    IF ~file.exists
    THEN [ok |-> FALSE, err |-> "ValueError", why |-> "File not found",
          st |-> st, disk |-> d, keys |-> <<>>, att |-> EmptyMap]
    ELSE IF Len(file.content) > MaxAttachmentSize
    THEN [ok |-> FALSE, err |-> "ValueError", why |-> "File too large",
          st |-> st, disk |-> d, keys |-> <<>>, att |-> EmptyMap]
    ELSE LET r == EncryptMessage(st, d, B64Encode(file.content), level, "", seed, t)
         IN IF ~r.ok
            THEN [ok |-> FALSE, err |-> r.err, why |-> "encrypt_message",
                  st |-> r.st, disk |-> r.disk, keys |-> r.keys, att |-> EmptyMap]
            ELSE [ok |-> TRUE, err |-> "", why |-> "", st |-> r.st,
                  disk |-> r.disk, keys |-> r.keys,
                  att |-> [filename |-> file.filename,
                           encrypted_content |-> r.pkg.ciphertext,
                           content_type |-> GuessType(file.filename),
                           original_size |-> Len(file.content),
                           encrypted_size |-> Len(r.pkg.ciphertext),
                           key_id |-> r.pkg.key_id,
                           security_level |-> r.pkg.security_level_name,
                           metadata |-> r.pkg.metadata]]


\* faulty variant of encrypt_multiple_files: a failing file is skipped
RECURSIVE MutEncryptMultipleSkip(_, _, _, _, _, _, _, _)
MutEncryptMultipleSkip(st, d, files, level, seed, t, atts, keys) ==
    IF files = <<>>
    THEN [ok |-> TRUE, err |-> "", why |-> "", st |-> st, disk |-> d,
          atts |-> atts, keys |-> keys]
    ELSE CHOOSE out \in
            {MutEncryptMultipleSkip(r.st, r.disk, Tail(files), level, seed, t,
                                    IF r.ok THEN Append(atts, r.att) ELSE atts,
                                    keys \o r.keys) :
                r \in {EncryptFile(st, d, Head(files), level, seed, t)}} :
            TRUE

\* encrypt_multiple_files: the list, or the exception of the first file that
\* fails; the list built so far is dropped with the raise
RECURSIVE EncryptMultipleFiles(_, _, _, _, _, _, _, _)
EncryptMultipleFiles(st, d, files, level, seed, t, atts, keys) ==
    IF files = <<>>
    THEN [ok |-> TRUE, err |-> "", why |-> "", st |-> st, disk |-> d,
          atts |-> atts, keys |-> keys]
    ELSE CHOOSE out \in
            {IF ~r.ok
             THEN [ok |-> FALSE, err |-> r.err, why |-> r.why, st |-> r.st,
                   disk |-> r.disk, atts |-> <<>>, keys |-> keys \o r.keys]
             ELSE EncryptMultipleFiles(r.st, r.disk, Tail(files), level, seed, t,
                                       Append(atts, r.att), keys \o r.keys) :
                r \in {EncryptFile(st, d, Head(files), level, seed, t)}} :
            TRUE

\* encrypted attachments the handler-level specification keeps
MaxAtts == MaxEnvs - 1

\* encrypt_attachment(filename, content, level) on the handler of client c
EncryptAtt(c) ==
    \E file \in Uploads, level \in SecurityLevel, seed \in Seeds :
        /\ Len(envs) < MaxAtts \/ Len(file.content) > MaxAttachmentSize
        /\ Len(issued) < MaxKeys
        /\ \E r \in {EncryptAttachment(client[c], disk, file.filename,
                                       file.content, level, seed, now)} :
              /\ client' = [client EXCEPT ![c] = r.st]
              /\ disk' = r.disk
              /\ issued' = issued \o r.keys
              /\ live' = live \cup IdsOf(r.keys)
              /\ envs' = IF r.ok
                         THEN Append(envs, [pkg |-> PackageOf(r.att),
                                            msg |-> file.content, kind |-> "att",
                                            send |-> 0, att |-> r.att,
                                            name |-> file.filename])
                         ELSE envs
              /\ ret' = [op |-> "encrypt_attachment", client |-> c, ok |-> r.ok,
                         err |-> r.err, size |-> Len(file.content),
                         level |-> level, keys |-> r.keys]
        /\ UNCHANGED <<km, now, closedEver, closedBy>>

\* decrypt_attachment(encrypted_attachment) on the handler of client c
DecryptAtt(c) ==
    \E i \in 1..Len(envs) :
        /\ envs[i].kind = "att"
        /\ ret' = [op |-> "decrypt_attachment", client |-> c, idx |-> i,
                   res |-> DecryptAttachment(client[c], envs[i].att)]
        /\ UNCHANGED <<km, disk, client, now, issued, live, closedEver, closedBy, envs>>

\* the two tests at the head of encrypt_file
FileFails(file) == ~file.exists \/ Len(file.content) > MaxAttachmentSize

\* index of the first file of the list that encrypt_file refuses, 0 if none
FirstFailing(files) ==
    IF \E i \in 1..Len(files) : FileFails(files[i])
    THEN CHOOSE i \in 1..Len(files) :
            FileFails(files[i]) /\ \A j \in 1..(i - 1) : ~FileFails(files[j])
    ELSE 0

\* encrypt_multiple_files(file_paths) on the handler of client c, at the
\* default level; the guards keep the histories within the bounds
EncryptBatch(c) ==
    \E files \in BatchLists, seed \in Seeds :
        /\ Len(envs) + (IF FirstFailing(files) = 0 THEN Len(files) ELSE 0) <= MaxAtts
        /\ Len(issued) + (IF FirstFailing(files) = 0 THEN Len(files)
                          ELSE FirstFailing(files) - 1) <= MaxKeys
        /\ \E r \in {EncryptMultipleFiles(client[c], disk, files, QUANTUM_AES, seed,
                                          now, <<>>, <<>>)} :
            /\ client' = [client EXCEPT ![c] = r.st]
            /\ disk' = r.disk
            /\ issued' = issued \o r.keys
            /\ live' = live \cup IdsOf(r.keys)
            /\ envs' = envs \o AsSeq([i \in 1..Len(r.atts) |->
                                 [pkg |-> PackageOf(r.atts[i]),
                                  msg |-> files[i].content, kind |-> "att",
                                  send |-> 0, att |-> r.atts[i],
                                  name |-> files[i].filename]])
            /\ ret' = [op |-> "encrypt_multiple_files", client |-> c,
                       files |-> files, ok |-> r.ok, err |-> r.err,
                       why |-> r.why, atts |-> r.atts, keys |-> r.keys]
            /\ UNCHANGED <<km, now, closedEver, closedBy>>

\* one AttachmentHandler at a time; a restart is a new handler over the store
NextAttach ==
    \/ EncryptAtt(1)
    \/ DecryptAtt(1)
    \/ EncryptBatch(1)
    \/ Restart(1)

SpecAttach == Init /\ [][NextAttach]_vars

(***************************************************************************)
(* The mail body: send_encrypted_email writes the package as JSON after a  *)
(* plain-text notice, and _extract_encrypted_package takes it out of the   *)
(* body of the received message.  The text/plain part is carried as it is. *)
(***************************************************************************)
\* the literals of plain_notice and attachment_notice, as code points: each
\* part is the text between two replacement fields or repetitions
Notice(part) ==
    CASE part = "title" ->
            \* "<lock> QUANTUM-ENCRYPTED EMAIL\n" "=", the literal the first * 60 applies to
            <<240, 376, 8221, 8217, 32, 81, 85, 65, 78, 84, 85, 77, 45,
            69, 78, 67, 82, 89, 80, 84, 69, 68, 32, 69, 77, 65, 73, 76,
            10, 61>>
      [] part = "intro" ->
            \* "\n\n" "This email was sent using QMail ..." up to "  <bullet> Key ID: "
            <<10, 10, 84, 104, 105, 115, 32, 101, 109, 97, 105, 108, 32,
            119, 97, 115, 32, 115, 101, 110, 116, 32, 117, 115, 105,
            110, 103, 32, 81, 77, 97, 105, 108, 32, 45, 32, 81, 117, 97,
            110, 116, 117, 109, 45, 83, 101, 99, 117, 114, 101, 32, 69,
            109, 97, 105, 108, 32, 67, 108, 105, 101, 110, 116, 46, 10,
            84, 104, 101, 32, 109, 101, 115, 115, 97, 103, 101, 32, 99,
            111, 110, 116, 101, 110, 116, 32, 105, 115, 32, 101, 110,
            99, 114, 121, 112, 116, 101, 100, 32, 97, 110, 100, 32, 99,
            97, 110, 110, 111, 116, 32, 98, 101, 32, 114, 101, 97, 100,
            32, 105, 110, 32, 114, 101, 103, 117, 108, 97, 114, 32, 101,
            109, 97, 105, 108, 32, 99, 108, 105, 101, 110, 116, 115, 46,
            10, 10, 84, 111, 32, 114, 101, 97, 100, 32, 116, 104, 105,
            115, 32, 109, 101, 115, 115, 97, 103, 101, 44, 32, 121, 111,
            117, 32, 110, 101, 101, 100, 58, 10, 32, 32, 49, 46, 32, 81,
            77, 97, 105, 108, 32, 99, 108, 105, 101, 110, 116, 32, 105,
            110, 115, 116, 97, 108, 108, 101, 100, 32, 40, 104, 116,
            116, 112, 115, 58, 47, 47, 103, 105, 116, 104, 117, 98, 46,
            99, 111, 109, 47, 121, 111, 117, 114, 117, 115, 101, 114,
            110, 97, 109, 101, 47, 113, 109, 97, 105, 108, 41, 10, 32,
            32, 50, 46, 32, 65, 99, 99, 101, 115, 115, 32, 116, 111, 32,
            116, 104, 101, 32, 115, 97, 109, 101, 32, 81, 117, 97, 110,
            116, 117, 109, 32, 75, 101, 121, 32, 77, 97, 110, 97, 103,
            101, 114, 10, 32, 32, 51, 46, 32, 84, 104, 101, 32, 75, 101,
            121, 32, 73, 68, 32, 115, 104, 111, 119, 110, 32, 98, 101,
            108, 111, 119, 10, 10, 69, 78, 67, 82, 89, 80, 84, 73, 79,
            78, 32, 68, 69, 84, 65, 73, 76, 83, 58, 10, 32, 32, 226,
            8364, 162, 32, 75, 101, 121, 32, 73, 68, 58, 32>>
      [] part = "level" ->
            \* "\n" "  <bullet> Security Level: "
            <<10, 32, 32, 226, 8364, 162, 32, 83, 101, 99, 117, 114,
            105, 116, 121, 32, 76, 101, 118, 101, 108, 58, 32>>
      [] part = "algorithm" ->
            \* "\n" "  <bullet> Algorithm: "
            <<10, 32, 32, 226, 8364, 162, 32, 65, 108, 103, 111, 114,
            105, 116, 104, 109, 58, 32>>
      [] part = "rule" ->
            \* "\n\n" "=", the end of the literal the second * 60 applies to
            <<10, 10, 61>>
      [] part = "more" ->
            \* "\n" "For more information about QMail, visit: ...\n" "="
            <<10, 70, 111, 114, 32, 109, 111, 114, 101, 32, 105, 110,
            102, 111, 114, 109, 97, 116, 105, 111, 110, 32, 97, 98, 111,
            117, 116, 32, 81, 77, 97, 105, 108, 44, 32, 118, 105, 115,
            105, 116, 58, 32, 104, 116, 116, 112, 115, 58, 47, 47, 103,
            105, 116, 104, 117, 98, 46, 99, 111, 109, 47, 121, 111, 117,
            114, 117, 115, 101, 114, 110, 97, 109, 101, 47, 113, 109,
            97, 105, 108, 10, 61>>
      [] part = "payload" ->
            \* "\n\n" "--- ENCRYPTED PAYLOAD (For QMail Client Only) ---\n"
            <<10, 10, 45, 45, 45, 32, 69, 78, 67, 82, 89, 80, 84, 69,
            68, 32, 80, 65, 89, 76, 79, 65, 68, 32, 40, 70, 111, 114,
            32, 81, 77, 97, 105, 108, 32, 67, 108, 105, 101, 110, 116,
            32, 79, 110, 108, 121, 41, 32, 45, 45, 45, 10>>
      [] part = "attachments" ->
            \* "\n\nEncrypted Attachments: "
            <<10, 10, 69, 110, 99, 114, 121, 112, 116, 101, 100, 32, 65,
            116, 116, 97, 99, 104, 109, 101, 110, 116, 115, 58, 32>>
      [] part = "bullet" ->
            \* "\n  <bullet> "
            <<10, 32, 32, 226, 8364, 162, 32>>
      [] part = "open" ->
            \* " ("
            <<32, 40>>
      [] part = "encryption" ->
            \* " encryption)"
            <<32, 101, 110, 99, 114, 121, 112, 116, 105, 111, 110, 41>>

\* the characters of a string, as code points
Str(s) ==
    CASE s = "ciphertext" -> <<99, 105, 112, 104, 101, 114, 116, 101, 120, 116>>
      [] s = "key_id" -> <<107, 101, 121, 95, 105, 100>>
      [] s = "security_level" -> <<115, 101, 99, 117, 114, 105, 116, 121, 95, 108, 101, 118, 101, 108>>
      [] s = "security_level_name" -> <<115, 101, 99, 117, 114, 105, 116, 121, 95, 108, 101, 118, 101, 108, 95, 110, 97, 109, 101>>
      [] s = "metadata" -> <<109, 101, 116, 97, 100, 97, 116, 97>>
      [] s = "recipient_id" -> <<114, 101, 99, 105, 112, 105, 101, 110, 116, 95, 105, 100>>
      [] s = "algorithm" -> <<97, 108, 103, 111, 114, 105, 116, 104, 109>>
      [] s = "plaintext_length" -> <<112, 108, 97, 105, 110, 116, 101, 120, 116, 95, 108, 101, 110, 103, 116, 104>>
      [] s = "iv" -> <<105, 118>>
      [] s = "tag" -> <<116, 97, 103>>
      [] s = "QUANTUM_OTP" -> <<81, 85, 65, 78, 84, 85, 77, 95, 79, 84, 80>>
      [] s = "QUANTUM_AES" -> <<81, 85, 65, 78, 84, 85, 77, 95, 65, 69, 83>>
      [] s = "POST_QUANTUM" -> <<80, 79, 83, 84, 95, 81, 85, 65, 78, 84, 85, 77>>
      [] s = "CLASSICAL" -> <<67, 76, 65, 83, 83, 73, 67, 65, 76>>
      [] s = "OTP" -> <<79, 84, 80>>
      [] s = "AES-256-CBC" -> <<65, 69, 83, 45, 50, 53, 54, 45, 67, 66, 67>>
      [] s = "PQC-AES-GCM" -> <<80, 81, 67, 45, 65, 69, 83, 45, 71, 67, 77>>
      [] s = "MOCK-KEY-" -> <<77, 79, 67, 75, 45, 75, 69, 89, 45>>
      [] s = "null" -> <<110, 117, 108, 108>>
      [] s = "N/A" -> <<78, 47, 65>>
      [] s = "a.txt" -> <<97, 46, 116, 120, 116>>
      [] s = "r{1}.txt" -> <<114, 123, 49, 125, 46, 116, 120, 116>>
      [] s = "x}.bin" -> <<120, 125, 46, 98, 105, 110>>

\* str(n) of a non-negative integer
RECURSIVE DecimalText(_)
DecimalText(n) ==
    IF n < 10 THEN <<48 + n>> ELSE DecimalText(n \div 10) \o <<48 + (n % 10)>>

\* the key id as the program writes it:
\* f"MOCK-KEY-{keys_generated:08d}-{now:%Y%m%d%H%M%S}".  The clock starts at
\* midnight of 2026-01-01 and stays within the first minute.
KeyIdText(key_id) ==
    LET ZeroPad(n, w) == Rep(48, w - Len(DecimalText(n))) \o DecimalText(n)
        date == <<50, 48, 50, 54, 48, 49, 48, 49>>
    IN Str("MOCK-KEY-") \o ZeroPad(key_id[1], 8) \o <<45>> \o date
           \o ZeroPad(key_id[2], 6)

\* s * n
RECURSIVE Repeat(_, _)
Repeat(s, n) == IF n <= 0 THEN <<>> ELSE s \o Repeat(s, n - 1)

\* the encrypted_package dict of encrypt_message as the value json.dumps is
\* given.  A value is [t, v]: a string, an integer, None, or a dict, whose v
\* is the sequence of its members [k, v] in insertion order.  The metadata
\* members are in the order the engine writes them; recipient_id is None
\* ("" in the package of the model).
PackageJson(pkg) ==
    LET S(text) == [t |-> "str", v |-> text]
        N(n) == [t |-> "int", v |-> n]
        M(name, value) == [k |-> Str(name), v |-> value]
        md == pkg.metadata
        metadata ==
            <<M("security_level", N(md.security_level)),
              M("algorithm", S(Str(md.algorithm)))>>
            \o (IF "plaintext_length" \in DOMAIN md
                THEN <<M("plaintext_length", N(md.plaintext_length))>> ELSE <<>>)
            \o (IF "iv" \in DOMAIN md THEN <<M("iv", S(md.iv))>> ELSE <<>>)
            \o (IF "tag" \in DOMAIN md THEN <<M("tag", S(md.tag))>> ELSE <<>>)
    IN [t |-> "obj",
        v |-> <<M("ciphertext", S(pkg.ciphertext)),
                M("key_id", S(KeyIdText(pkg.key_id))),
                M("security_level", N(pkg.security_level)),
                M("security_level_name", S(Str(pkg.security_level_name))),
                M("metadata", [t |-> "obj", v |-> metadata]),
                M("recipient_id", [t |-> "null", v |-> 0])>>]

\* the escapes json.dumps writes inside a string, for '"' and '\'; the
\* strings of a package hold no control and no non-ASCII characters
RECURSIVE JsonEscape(_)
JsonEscape(text) ==
    IF text = <<>> THEN <<>>
    ELSE (IF Head(text) = 34 THEN <<92, 34>>
          ELSE IF Head(text) = 92 THEN <<92, 92>>
          ELSE <<Head(text)>>) \o JsonEscape(Tail(text))

\* json.dumps(value, indent=2), value nested level deep
RECURSIVE JsonDumps(_, _)
RECURSIVE JsonMembers(_, _)
JsonDumps(value, level) ==
    CASE value.t = "str" -> <<34>> \o JsonEscape(value.v) \o <<34>>
      [] value.t = "int" -> (IF value.v < 0 THEN <<45>> \o DecimalText(0 - value.v)
                             ELSE DecimalText(value.v))
      [] value.t = "null" -> Str("null")
      [] value.t = "obj" ->
            IF value.v = <<>> THEN <<123, 125>>
            ELSE <<123, 10>> \o JsonMembers(value.v, level + 1) \o <<10>>
                 \o Rep(32, 2 * level) \o <<125>>

JsonMembers(members, level) ==
    Rep(32, 2 * level) \o <<34>> \o JsonEscape(Head(members).k) \o <<34>> \o <<58, 32>>
        \o JsonDumps(Head(members).v, level)
        \o (IF Tail(members) = <<>> THEN <<>>
            ELSE <<44, 10>> \o JsonMembers(Tail(members), level))

\* json.loads: [ok, v, i] is the value read and the position after it, or
\* the failure (JSONDecodeError).  Objects, strings with the escapes \" \\ \/,
\* integers and null are read; any other text is a failure.
JFail == [ok |-> FALSE, v |-> [t |-> "null", v |-> 0], i |-> 0]

RECURSIVE SkipWs(_, _)
SkipWs(s, i) == IF i <= Len(s) /\ s[i] \in {32, 9, 10, 13} THEN SkipWs(s, i + 1) ELSE i

\* i is the position after the opening quote, or after the last escape; j
\* is the first position from i on that ends a run of plain characters (a
\* quote, a backslash or a control character), Len(s) + 1 if there is none
RECURSIVE ScanString(_, _, _)
ScanString(s, i, acc) ==
    LET j == IF \E h \in i..Len(s) : s[h] \in {34, 92} \/ s[h] < 32
             THEN CHOOSE h \in i..Len(s) :
                    /\ s[h] \in {34, 92} \/ s[h] < 32
                    /\ \A g \in i..(h - 1) : ~(s[g] \in {34, 92} \/ s[g] < 32)
             ELSE Len(s) + 1
        run == acc \o SubSeq(s, i, j - 1)
    IN IF j > Len(s) THEN JFail
       ELSE IF s[j] = 34
       THEN [ok |-> TRUE, v |-> [t |-> "str", v |-> run], i |-> j + 1]
       ELSE IF s[j] = 92 /\ j + 1 <= Len(s) /\ s[j + 1] \in {34, 92, 47}
       THEN ScanString(s, j + 2, Append(run, s[j + 1]))
       ELSE JFail

RECURSIVE ScanInt(_, _, _)
ScanInt(s, i, n) ==
    IF i <= Len(s) /\ s[i] \in 48..57 THEN ScanInt(s, i + 1, n * 10 + (s[i] - 48))
    ELSE [ok |-> TRUE, v |-> [t |-> "int", v |-> n], i |-> i]

RECURSIVE ParseValue(_, _)
RECURSIVE ParseMembers(_, _, _)
ParseValue(s, i) ==
    IF i > Len(s) THEN JFail
    ELSE IF s[i] = 123
    THEN LET j == SkipWs(s, i + 1)
         IN IF j <= Len(s) /\ s[j] = 125
            THEN [ok |-> TRUE, v |-> [t |-> "obj", v |-> <<>>], i |-> j + 1]
            ELSE ParseMembers(s, j, <<>>)
    ELSE IF s[i] = 34 THEN ScanString(s, i + 1, <<>>)
    ELSE IF s[i] \in 48..57 THEN ScanInt(s, i, 0)
    ELSE IF s[i] = 45
    THEN IF i + 1 <= Len(s) /\ s[i + 1] \in 48..57
         THEN [ScanInt(s, i + 1, 0) EXCEPT !.v = [t |-> "int", v |-> 0 - @.v]]
         ELSE JFail
    ELSE IF i + 3 <= Len(s) /\ SubSeq(s, i, i + 3) = Str("null")
    THEN [ok |-> TRUE, v |-> [t |-> "null", v |-> 0], i |-> i + 4]
    ELSE JFail

\* j is the position where the name of the next member must start
ParseMembers(s, j, acc) ==
    IF j > Len(s) \/ s[j] # 34 THEN JFail
    ELSE LET k == ScanString(s, j + 1, <<>>)
             c == SkipWs(s, k.i)
             x == ParseValue(s, SkipWs(s, c + 1))
             e == SkipWs(s, x.i)
         IN IF ~k.ok THEN JFail
            ELSE IF c > Len(s) \/ s[c] # 58 THEN JFail
            ELSE IF ~x.ok THEN JFail
            ELSE IF e > Len(s) THEN JFail
            ELSE IF s[e] = 125
            THEN [ok |-> TRUE,
                  v |-> [t |-> "obj", v |-> Append(acc, [k |-> k.v.v, v |-> x.v])],
                  i |-> e + 1]
            ELSE IF s[e] = 44
            THEN ParseMembers(s, SkipWs(s, e + 1),
                              Append(acc, [k |-> k.v.v, v |-> x.v]))
            ELSE JFail

\* json.loads(text): the whole text must be one value
JsonLoads(text) ==
    LET r == ParseValue(text, SkipWs(text, 1))
    IN IF r.ok /\ SkipWs(text, r.i) > Len(text)
       THEN [ok |-> TRUE, v |-> r.v]
       ELSE [ok |-> FALSE, v |-> [t |-> "null", v |-> 0]]

\* attachment_notice: the count and one line per attachment
RECURSIVE AttachmentLines(_)
AttachmentLines(atts) ==
    IF atts = <<>> THEN <<>>
    ELSE Notice("bullet") \o Head(atts).filename \o Notice("open")
         \o Str(Head(atts).security_level_name) \o Notice("encryption")
         \o AttachmentLines(Tail(atts))

AttachmentNotice(atts) ==
    IF atts = <<>> THEN <<>>
    ELSE Notice("attachments") \o DecimalText(Len(atts)) \o AttachmentLines(atts)

\* the width the rules of the notice are written with ("=" * 60)
RuleWidth == 60

\* plain_notice: adjacent literals are joined before "*" applies, so each
\* "=" * 60 repeats the whole literal in front of it
PlainNotice(pkg, atts) ==
    Repeat(Notice("title"), RuleWidth)
        \o Repeat(Notice("intro") \o KeyIdText(pkg.key_id)
                  \o Notice("level") \o Str(pkg.security_level_name)
                  \o Notice("algorithm") \o Str(pkg.metadata.algorithm)
                  \o AttachmentNotice(atts) \o Notice("rule"), RuleWidth)
        \o Repeat(Notice("more"), RuleWidth)
        \o Notice("payload") \o JsonDumps(PackageJson(pkg), 0)

\* str.find(c) and str.rfind(c): the 0-based index, or -1
StrFind(s, c) ==
    IF \E i \in 1..Len(s) : s[i] = c
    THEN (CHOOSE i \in 1..Len(s) : s[i] = c /\ \A j \in 1..(i - 1) : s[j] # c) - 1
    ELSE -1

StrRFind(s, c) ==
    IF \E i \in 1..Len(s) : s[i] = c
    THEN (CHOOSE i \in 1..Len(s) : s[i] = c /\ \A j \in (i + 1)..Len(s) : s[j] # c) - 1
    ELSE -1

\* _extract_encrypted_package: the dict, or None (ok = FALSE) when there is
\* no such text or json.loads raises
ExtractEncryptedPackage(body) ==
    LET start_idx == StrFind(body, 123)
        end_idx == StrRFind(body, 125) + 1
    IN IF start_idx >= 0 /\ end_idx > start_idx
       THEN JsonLoads(SubSeq(body, start_idx + 1, end_idx))
       ELSE [ok |-> FALSE, v |-> [t |-> "null", v |-> 0]]

\* d[name] of a dict json.loads returned
Member(o, name) == o.v[CHOOSE m \in 1..Len(o.v) : o.v[m].k = Str(name)].v

\* the dict json.loads returned, as the package decrypt_message reads: a
\* name is the string that spells the text ("?" if none does), the key id
\* the one among ids whose text it is (the never-issued id if none)
PackageOfJson(o, ids) ==
    LET TextName(text, names) ==
            IF \E n \in names : Str(n) = text
            THEN CHOOSE n \in names : Str(n) = text
            ELSE "?"
        KeyIdOfText(text) ==
            IF \E id \in ids : KeyIdText(id) = text
            THEN CHOOSE id \in ids : KeyIdText(id) = text
            ELSE KeyId(0, 0)
        md == Member(o, "metadata")
        fields == {"security_level", "algorithm", "plaintext_length", "iv", "tag"}
    IN [ciphertext |-> Member(o, "ciphertext").v,
        key_id |-> KeyIdOfText(Member(o, "key_id").v),
        security_level |-> Member(o, "security_level").v,
        security_level_name |->
            TextName(Member(o, "security_level_name").v,
                     {LevelName(l) : l \in SecurityLevel}),
        metadata |->
            [f \in {n \in fields : \E m \in 1..Len(md.v) : md.v[m].k = Str(n)} |->
                IF f = "algorithm"
                THEN TextName(Member(md, f).v, {"OTP", "AES-256-CBC", "PQC-AES-GCM"})
                ELSE Member(md, f).v],
        recipient_id |-> IF Member(o, "recipient_id").t = "null" THEN "" ELSE "?"]

\* encrypted_attachments handed to send_encrypted_email: none, plain names,
\* a name with a closing brace, a name with braces
AttachmentLists ==
    {<<>>,
     <<[filename |-> Str("a.txt"), security_level_name |-> "QUANTUM_AES"]>>,
     <<[filename |-> Str("a.txt"), security_level_name |-> "QUANTUM_AES"],
       [filename |-> Str("x}.bin"), security_level_name |-> "QUANTUM_OTP"]>>,
     <<[filename |-> Str("r{1}.txt"), security_level_name |-> "QUANTUM_AES"]>>}

\* EmailManager.send_encrypted_email: encrypt_message, then the body of the
\* message SMTPHandler.send_encrypted_email sends; one message is in flight
SendEncryptedEmail(c) ==
    \E message \in Messages, level \in SecurityLevel, seed \in Seeds,
       atts \in AttachmentLists :
        /\ envs = <<>>
        /\ \E r \in {EncryptMessage(client[c], disk, message, level, "", seed, now)} :
              /\ client' = [client EXCEPT ![c] = r.st]
              /\ disk' = r.disk
              /\ issued' = issued \o r.keys
              /\ live' = live \cup IdsOf(r.keys)
              /\ envs' = IF r.ok
                         THEN <<[pkg |-> r.pkg, msg |-> message, kind |-> "mail",
                                 send |-> 1, atts |-> atts,
                                 body |-> PlainNotice(r.pkg, atts)]>>
                         ELSE envs
              /\ ret' = [op |-> "send", client |-> c, ok |-> r.ok]
        /\ UNCHANGED <<km, now, closedEver, closedBy>>

\* the receiving side: the package taken out of the body, and its decryption
ReceiveEmail(c) ==
    \E i \in 1..Len(envs) :
        /\ envs[i].kind = "mail"
        /\ \E x \in {ExtractEncryptedPackage(envs[i].body)} :
            \E pkg \in {IF x.ok THEN PackageOfJson(x.v, IssuedIds) ELSE EmptyMap} :
              ret' = [op |-> "receive", client |-> c, idx |-> i, found |-> x.ok,
                      json |-> x.v, pkg |-> pkg,
                      res |-> IF x.ok THEN DecryptMessage(client[c], pkg)
                              ELSE DFail("None")]
        /\ UNCHANGED <<km, disk, client, now, issued, live, closedEver, closedBy, envs>>

NextMail ==
    \/ SendEncryptedEmail(1)
    \/ ReceiveEmail(1)
    \/ Restart(1)

SpecMail == Init /\ [][NextMail]_vars

(***************************************************************************)
(* The engine called directly, with keys the caller supplies.              *)
(***************************************************************************)
\* key lengths in bytes: empty, shorter than any plaintext, an AES key, longer
KeyLens == {0, 4, 10, AesKeyLen, 40}

EngineKeys == {TokenBytes(n, seed) : n \in KeyLens, seed \in Seeds}

\* byte i of b with one bit (of value bit) inverted
FlipBit(b, i, bit) == [b EXCEPT ![i] = BitXor(@, bit)]

\* metadata a caller may hand to decrypt: as produced, with another claimed
\* plaintext length, with that field missing, or with one bit of the stored
\* tag inverted
MdVariants(md, ciphertext) ==
    IF "plaintext_length" \in DOMAIN md
    THEN {md, [md EXCEPT !.plaintext_length = Len(ciphertext) + 8],
          [f \in (DOMAIN md) \ {"plaintext_length"} |-> md[f]]}
    ELSE IF "tag" \in DOMAIN md
    THEN {md, [md EXCEPT !.tag = B64Encode(FlipBit(B64Decode(@).val, 1, 1))],
          [md EXCEPT !.tag = B64Encode(FlipBit(B64Decode(@).val, BlockSize, 128))]}
    ELSE {md}

\* ciphertexts a caller may hand to decrypt: as produced, or with one bit of
\* the first or of the last byte inverted
CtVariants(ciphertext) ==
    IF ciphertext = <<>> THEN {ciphertext}
    ELSE {ciphertext, FlipBit(ciphertext, 1, 1),
          FlipBit(ciphertext, Len(ciphertext), 128)}

\* the engine keeps no state between calls: one encrypt from the initial
\* state, then decrypts of what it returned
EngineEncryptCall ==
    \E message \in Messages, key \in EngineKeys, level \in SecurityLevel,
       seed \in Seeds :
        /\ ret.op = "init"
        /\ ret' = [op |-> "engine_encrypt", plaintext |-> Utf8Encode(message),
                   key |-> key, level |-> level,
                   res |-> EngineEncrypt(Utf8Encode(message), key, level,
                                         TokenBytes(BlockSize, seed))]
        /\ UNCHANGED <<km, disk, client, now, issued, live, closedEver, closedBy, envs>>

EngineDecryptCall ==
    /\ ret.op = "engine_encrypt"
    /\ ret.res.ok
    /\ \E key \in EngineKeys, md \in MdVariants(ret.res.md, ret.res.ct),
          ciphertext \in CtVariants(ret.res.ct) :
        ret' = [op |-> "engine_decrypt", ciphertext |-> ciphertext, key |-> key,
                md |-> md, plaintext |-> ret.plaintext, sameKey |-> key = ret.key,
                altered |-> (ciphertext # ret.res.ct \/ md # ret.res.md),
                res |-> EngineDecrypt(ciphertext, key, md)]
    /\ UNCHANGED <<km, disk, client, now, issued, live, closedEver, closedBy, envs>>

NextEngine == EngineEncryptCall \/ EngineDecryptCall

SpecEngine == Init /\ [][NextEngine]_vars

(***************************************************************************)
(* QKDClient: the remote Key Manager, reached with HTTP requests.          *)
(***************************************************************************)
\* how a requests.post call ends: the exceptions of a failed transport, the
\* exception raise_for_status raises on an error status, or a 200 answer
Transport == {"ConnectionError", "Timeout"}

Rejection == {"HTTPError"}

HttpOutcomes == Transport \cup Rejection \cup {"200"}

NoData == [message |-> "none"]

\* the service answering enc_keys: number keys of size bits, under new ids
RECURSIVE KmEncKeys(_, _, _, _, _)
KmEncKeys(k, number, size, seed, out) ==
    IF number = 0 THEN [km |-> k, data |-> [keys |-> out]]
    ELSE LET id == k.n + 1
             key == TokenBytes(size \div 8, seed)
         IN KmEncKeys([keys |-> MapPut(k.keys, id, key), n |-> id],
                      number - 1, size, seed,
                      Append(out, [key_ID |-> id, key |-> B64Encode(key)]))

\* the service answering dec_keys
KmDecKeys(k, key_ID) ==
    IF key_ID \in DOMAIN k.keys
    THEN [keys |-> <<[key_ID |-> key_ID, key |-> B64Encode(k.keys[key_ID])]>>]
    ELSE [keys |-> <<>>]

\* the service answering close
KmClose(k, key_ID) == [k EXCEPT !.keys = MapDel(@, key_ID)]

\* QKDKey(key_id, key, key_size) built from one entry of the answer
ParseKey(key_data) ==
    LET key == B64Decode(key_data.key).val
    IN [key_id |-> key_data.key_ID, key |-> key, key_size |-> Len(key) * 8]

\* QKDClient.get_key: resp is how the request ended and the body of a 200
RemoteGetKey(resp) ==
    IF resp.outcome # "200"
    THEN [ok |-> FALSE, err |-> "QKDKeyRetrievalError", keys |-> <<>>]
    ELSE [ok |-> TRUE, err |-> "",
          keys |-> IF "keys" \in DOMAIN resp.data
                   THEN AsSeq([i \in 1..Len(resp.data.keys) |->
                                  ParseKey(resp.data.keys[i])])
                   ELSE <<>>]

\* QKDClient.get_key_by_id
RemoteGetKeyById(resp) ==
    IF resp.outcome # "200"
    THEN [ok |-> FALSE, err |-> "QKDKeyRetrievalError", found |-> FALSE, keys |-> <<>>]
    ELSE IF "keys" \in DOMAIN resp.data /\ Len(resp.data.keys) > 0
    THEN [ok |-> TRUE, err |-> "", found |-> TRUE,
          keys |-> <<ParseKey(resp.data.keys[1])>>]
    ELSE [ok |-> TRUE, err |-> "", found |-> FALSE, keys |-> <<>>]

\* QKDClient.close_key: the returned flag
RemoteCloseKey(resp) ==
    IF resp.outcome # "200" THEN [ok |-> TRUE, err |-> "", flag |-> FALSE]
    ELSE [ok |-> TRUE, err |-> "", flag |-> TRUE]

\* what a call returns when its request ends with a failure
FailureResult(op, outcome) ==
    LET resp == [outcome |-> outcome, data |-> NoData]
    IN CASE op = "remote_generate" -> RemoteGetKey(resp)
         [] op = "remote_retrieve" -> RemoteGetKeyById(resp)
         [] op = "remote_close" -> RemoteCloseKey(resp)

RemoteOps == {"remote_generate", "remote_retrieve", "remote_close"}

\* get_key(key_size, number_of_keys) calls made on the remote client
RemoteRequests ==
    {[key_size |-> 64, number |-> 1], [key_size |-> 256, number |-> 1],
     [key_size |-> 64, number |-> 2]}

\* ids presented to the remote client: every id the service gave out, and one more
RemoteIds == 1..(km.n + 1)

\* a request that times out may or may not have been carried out by the service
Served(outcome) == IF outcome = "200" THEN {TRUE}
                   ELSE IF outcome = "Timeout" THEN {TRUE, FALSE} ELSE {FALSE}

RemoteGenerate ==
    \E rq \in RemoteRequests, outcome \in HttpOutcomes, seed \in Seeds,
       withKeys \in BOOLEAN :
        /\ km.n + rq.number <= MaxKeys
        /\ \E served \in Served(outcome) :
            \E s \in {KmEncKeys(km, rq.number, rq.key_size, seed, <<>>)} :
              /\ km' = IF served THEN s.km ELSE km
              /\ ret' = [op |-> "remote_generate", outcome |-> outcome, rq |-> rq,
                         res |-> RemoteGetKey(
                                     [outcome |-> outcome,
                                      data |-> IF outcome = "200" /\ withKeys
                                               THEN s.data ELSE NoData])]
        /\ UNCHANGED <<disk, client, now, issued, live, closedEver, closedBy, envs>>

RemoteRetrieve ==
    \E key_id \in RemoteIds, outcome \in HttpOutcomes :
        /\ ret' = [op |-> "remote_retrieve", outcome |-> outcome, key_id |-> key_id,
                   res |-> RemoteGetKeyById(
                               [outcome |-> outcome,
                                data |-> IF outcome = "200"
                                         THEN KmDecKeys(km, key_id) ELSE NoData])]
        /\ UNCHANGED <<km, disk, client, now, issued, live, closedEver, closedBy, envs>>

RemoteClose ==
    \E key_id \in RemoteIds, outcome \in HttpOutcomes :
        \E served \in Served(outcome) :
            /\ km' = IF served THEN KmClose(km, key_id) ELSE km
            /\ ret' = [op |-> "remote_close", outcome |-> outcome, key_id |-> key_id,
                       res |-> RemoteCloseKey([outcome |-> outcome, data |-> NoData])]
            /\ UNCHANGED <<disk, client, now, issued, live, closedEver, closedBy, envs>>

NextRemote == RemoteGenerate \/ RemoteRetrieve \/ RemoteClose

SpecRemote == Init /\ [][NextRemote]_vars

\* C13: get_key on the remote client raises the connection error class
\* (QKDConnectionError) when the endpoint cannot be reached or the request
\* times out.
C13_UnreachableIsConnectionError ==
    (ret.op = "remote_generate" /\ ret.outcome \in Transport)
        => (~ret.res.ok /\ ret.res.err = "QKDConnectionError")

\* C14: for get_key, get_key_by_id and close_key of the remote client, a call
\* whose request failed in transport ends differently from the same call
\* rejected by the service with an error status.
C14_TransportVsRejectionDistinct ==
    (ret.op \in RemoteOps /\ ret.outcome \in Transport)
        => \A r \in Rejection : ret.res # FailureResult(ret.op, r)

(***************************************************************************)
(* Claims about the simulated Key Manager.                                 *)
(***************************************************************************)

\* C2: with several clients over one persisted store, after every call the
\* store file holds every key some client generated and no client closed.
C2_NoLostUpdate == live \subseteq DOMAIN disk.keys

\* C3: once close(id) returned True for one caller, a later retrieve(id) by
\* any caller returns not-found (the id not having been generated again).
C3_CloseSeenByAll ==
    (ret.op = "retrieve" /\ ret.closedBefore /\ ret.key_id \notin live)
        => ~ret.res.found

C5_ClosedStaysClosed ==
    (ret.op = "retrieve" /\ ret.closedByMe) => ~ret.res.found

C5_Witness ==
    /\ ret.op = "retrieve" /\ ret.closedByMe
    /\ DOMAIN client[ret.client].key_store # {}

\* C16: close_key of an id the client's store does not hold returns False and
\* leaves the store, in memory and on file, as it was; close_key of an id it
\* holds returns True and removes it, so a second close of that id is False.
C16_CloseMissingIsFalse ==
    [][(ret' # ret /\ ret'.op = "close") =>
          IF ret'.key_id \in DOMAIN client[ret'.client].key_store
          THEN ret'.ok /\ ret'.key_id \notin DOMAIN client'[ret'.client].key_store
          ELSE ~ret'.ok /\ client' = client /\ disk' = disk]_vars

C16_Witness ==
    /\ ret.op = "close" /\ ~ret.ok
    /\ ret.key_id \in closedBy[ret.client]
    /\ DOMAIN client[ret.client].key_store # {}

\* C17: every key record get_key or get_key_by_id returns has material of
\* exactly key_size bits: len(key) * 8 = key_size, whatever size was asked for.
C17_KeySizeMatchesMaterial ==
    /\ \A i \in 1..Len(issued) : Len(issued[i].key) * 8 = issued[i].key_size
    /\ (ret.op = "retrieve" /\ ret.res.found)
          => Len(ret.res.key) * 8 = ret.res.key_size

\* C21: get_key_with_key_ids returns, in the order of the request, one
\* record for each requested id the store holds, with that id and the stored
\* bytes; an id the store does not hold is left out and the call still returns.
C21_RetrieveManyBestEffort ==
    ret.op = "retrieve_many" =>
        LET store == client[ret.client].key_store
            present == SelectSeq(ret.key_ids, LAMBDA id : id \in DOMAIN store)
        IN /\ Len(ret.res) = Len(present)
           /\ \A i \in 1..Len(present) :
                 /\ ret.res[i].key_id = present[i]
                 /\ ret.res[i].key = store[present[i]]

C21_Witness ==
    /\ ret.op = "retrieve_many"
    /\ Len(ret.key_ids) = 3 /\ Len(ret.res) = 2
    /\ ret.key_ids[2] \notin DOMAIN client[ret.client].key_store
    /\ ret.res[1].key_id[1] > ret.res[2].key_id[1]

C28_MaterialImmutable ==
    /\ (ret.op = "retrieve" /\ ret.key_id \in live) =>
          /\ ret.res.found
          /\ \A i \in 1..Len(issued) :
                issued[i].key_id = ret.key_id => ret.res.key = issued[i].key
    /\ \A i \in 1..Len(issued) :
          (issued[i].key_id \in live /\ issued[i].key_id \in DOMAIN disk.keys)
              => disk.keys[issued[i].key_id] = B64Encode(issued[i].key)

\* C15: when the write of the store file fails during get_key or close_key,
\* the call raises to its caller and does not return as if it had succeeded.
C15_SaveFailureReported ==
    (ret.op \in {"generate", "close"} /\ ret.io \in {"refused", "torn"})
        => ret.raised

C1_RoundTrip ==
    (ret.op = "decrypt" /\ ret.keyLive) =>
        (ret.res.ok /\ ret.res.val = envs[ret.idx].msg)

C1_Witness ==
    /\ ret.op = "decrypt" /\ ret.keyLive /\ ret.res.ok
    /\ envs[ret.idx].pkg.security_level = QUANTUM_OTP
    /\ Len(Utf8Encode(envs[ret.idx].msg)) > AesKeyLen
    /\ ret.idx < Len(envs)

\* C11: decrypt_message of a package whose key id the Key Source does not
\* hold fails with the key-retrieval error class (QKDKeyRetrievalError) and
\* returns no text.
C11_AbsentKeyIsKeyRetrievalError ==
    (ret.op = "decrypt" /\ envs[ret.idx].pkg.key_id \notin DOMAIN client[ret.client].key_store)
        => (~ret.res.ok /\ ret.res.err = "QKDKeyRetrievalError")

\* C23: the key encrypt_message requests has max(8 * UTF-8 bytes, 256) bits
\* at level 1 and 256 bits at the other levels; the key issued for a level-1
\* message has at least as many bytes as the plaintext, and encrypt_message
\* does not fail for key length.
C23_OtpKeyCoversPlaintext ==
    ret.op = "encrypt" =>
        /\ ret.ok
        /\ LET e == envs[Len(envs)]
               n == Len(Utf8Encode(e.msg))
               key == ret.keys[1]
           IN /\ key.key_size = (IF e.pkg.security_level = 1
                                 THEN (IF 8 * n > 256 THEN 8 * n ELSE 256)
                                 ELSE 256)
              /\ Len(key.key) * 8 = key.key_size
              /\ e.pkg.security_level = 1 => Len(key.key) >= n

C23_Witness ==
    /\ ret.op = "encrypt" /\ ret.ok
    /\ envs[Len(envs)].pkg.security_level = QUANTUM_OTP
    /\ ret.keys[1].key_size = 8 * Len(Utf8Encode(envs[Len(envs)].msg))
    /\ ret.keys[1].key_size > DefaultKeySize

\* C24: every package encrypt_message returned has security_level in 1..4,
\* the security_level_name of that level, the same level in its metadata, and
\* besides level and algorithm exactly the fields of its scheme:
\* plaintext_length at level 1, iv at levels 2 and 4, iv and tag at level 3.
C24_EnvelopeShape ==
    \A i \in 1..Len(envs) :
        LET p == envs[i].pkg
        IN /\ p.security_level \in 1..4
           /\ p.security_level_name =
                 <<"QUANTUM_OTP", "QUANTUM_AES", "POST_QUANTUM", "CLASSICAL">>[p.security_level]
           /\ p.metadata.security_level = p.security_level
           /\ (DOMAIN p.metadata) \ {"security_level", "algorithm"} =
                 <<{"plaintext_length"}, {"iv"}, {"iv", "tag"}, {"iv"}>>[p.security_level]

C24_Witness ==
    /\ Len(envs) >= 1
    /\ envs[1].pkg.security_level = POST_QUANTUM
    /\ "tag" \in DOMAIN envs[1].pkg.metadata
    /\ ret.op = "restart"

\* C25: the scheme decrypt_message applies is the one the package's
\* security_level field names: its result is that of decrypting under that level.
C25_LevelFromEnvelope ==
    ret.op = "decrypt_package" =>
        ret.res = DecryptMessage(
                      client[ret.client],
                      [ret.pkg EXCEPT !.metadata =
                          [f \in (DOMAIN @) \cup {"security_level"} |->
                              IF f = "security_level" THEN ret.pkg.security_level
                              ELSE @[f]]])

\* C29: decrypt_message, whether it returns or raises, leaves the client's
\* store and counter and the store file as they were, and the same call made
\* again gives the same result.
C29_DecryptLeavesKeySource ==
    [][(ret' # ret /\ ret'.op = "decrypt_package") =>
          /\ client' = client
          /\ disk' = disk
          /\ issued' = issued
          /\ DecryptMessage(client'[ret'.client], ret'.pkg) = ret'.res]_vars

C29_Witness ==
    /\ ret.op = "decrypt_package" /\ ret.asMade /\ ret.res.ok
    /\ ret.pkg.key_id \in DOMAIN client[ret.client].key_store
    /\ ret.pkg.key_id \in DOMAIN disk.keys
    /\ client[ret.client].keys_generated = 1

C8_AttachmentKeyIndependent ==
    \A i, j \in 1..Len(envs) :
        (/\ i # j
         /\ envs[i].kind = "att"
         /\ \/ envs[j].kind = "att"
            \/ envs[j].kind = "body" /\ envs[j].send = envs[i].send)
            => envs[i].pkg.key_id # envs[j].pkg.key_id

(***************************************************************************)
(* Claims about the engine.                                                *)
(***************************************************************************)

\* C9: One-Time-Pad encryption with a key shorter than the plaintext raises
\* EncryptionError and yields neither ciphertext nor metadata.
C9_OtpShortKeyRejected ==
    (/\ ret.op = "engine_encrypt"
     /\ ret.level = QUANTUM_OTP
     /\ Len(ret.key) < Len(ret.plaintext))
        => (/\ ~ret.res.ok
            /\ ret.res.err = "EncryptionError"
            /\ ret.res.ct = <<>>
            /\ ret.res.md = EmptyMap)

C9_Witness ==
    /\ ret.op = "engine_encrypt"
    /\ ret.level = QUANTUM_OTP
    /\ Len(ret.key) > 0
    /\ Len(ret.key) < Len(ret.plaintext)
    /\ ~ret.res.ok

\* C10: One-Time-Pad decryption with a key shorter than the plaintext length
\* the metadata claims raises DecryptionError and yields no plaintext.
C10_OtpShortKeyDecryptRejected ==
    (/\ ret.op = "engine_decrypt"
     /\ MdGet(ret.md, "security_level", QUANTUM_AES) = QUANTUM_OTP
     /\ "plaintext_length" \in DOMAIN ret.md
     /\ Len(ret.key) < ret.md.plaintext_length)
        => (/\ ~ret.res.ok
            /\ ret.res.err = "DecryptionError"
            /\ ret.res.val = <<>>)

C10_Witness ==
    /\ ret.op = "engine_decrypt"
    /\ MdGet(ret.md, "security_level", QUANTUM_AES) = QUANTUM_OTP
    /\ "plaintext_length" \in DOMAIN ret.md
    /\ Len(ret.key) > 0
    /\ Len(ret.key) < ret.md.plaintext_length
    /\ ret.md.plaintext_length = Len(ret.ciphertext)
    /\ ~ret.res.ok

\* C26: One-Time-Pad encryption of p with a key k of at least len(p) bytes
\* returns a ciphertext of len(p) bytes whose i-th byte is p[i] XOR k[i] and
\* records plaintext_length = len(p); decrypting that ciphertext with k and
\* that metadata returns p.
C26_OtpXorRoundTrip ==
    /\ (/\ ret.op = "engine_encrypt"
        /\ ret.level = QUANTUM_OTP
        /\ Len(ret.key) >= Len(ret.plaintext)) =>
          /\ ret.res.ok
          /\ Len(ret.res.ct) = Len(ret.plaintext)
          /\ \A i \in 1..Len(ret.plaintext) :
                /\ ret.res.ct[i] = BitXor(ret.plaintext[i], ret.key[i])
                /\ BitXor(ret.res.ct[i], ret.key[i]) = ret.plaintext[i]
          /\ ret.res.md.plaintext_length = Len(ret.plaintext)
    /\ (/\ ret.op = "engine_decrypt"
        /\ MdGet(ret.md, "security_level", QUANTUM_AES) = QUANTUM_OTP
        /\ ret.sameKey /\ ~ret.altered) =>
          /\ ret.res.ok
          /\ ret.res.val = ret.plaintext

C26_Witness ==
    /\ ret.op = "engine_decrypt"
    /\ MdGet(ret.md, "security_level", QUANTUM_AES) = QUANTUM_OTP
    /\ ret.sameKey /\ ~ret.altered /\ ret.res.ok
    /\ Len(ret.plaintext) > AesKeyLen
    /\ Len(ret.key) > Len(ret.plaintext)
    /\ ret.ciphertext # ret.plaintext

\* C12: decrypting a level-3 (AES-GCM placeholder) ciphertext whose bytes or
\* whose stored tag were altered after encryption raises DecryptionError and
\* returns no plaintext.
C12_PqcTamperIsDecryptionError ==
    (/\ ret.op = "engine_decrypt"
     /\ ret.md.security_level = POST_QUANTUM
     /\ ret.sameKey /\ ret.altered)
        => (~ret.res.ok /\ ret.res.err = "DecryptionError")

\* whatever the error class, an altered level-3 ciphertext or tag never
\* yields a plaintext
PqcTamperNoPlaintext ==
    (/\ ret.op = "engine_decrypt"
     /\ ret.md.security_level = POST_QUANTUM
     /\ ret.altered)
        => ~ret.res.ok

(***************************************************************************)
(* Claims about the attachment handler.                                    *)
(***************************************************************************)

\* C18: encrypt_attachment refuses content longer than max_attachment_size
\* with the "too large" ValueError before any key is obtained, the client's
\* store and the store file staying as they were, and accepts content of
\* exactly that size; encrypt_file refuses a file over the size the same way.
C18_SizeCeiling ==
    [][/\ (ret' # ret /\ ret'.op = "encrypt_attachment") =>
            IF ret'.size > MaxAttachmentSize
            THEN /\ ~ret'.ok /\ ret'.err = "ValueError" /\ ret'.keys = <<>>
                 /\ client' = client /\ disk' = disk /\ issued' = issued
            ELSE ret'.ok /\ Len(ret'.keys) = 1
       /\ (/\ ret' # ret /\ ret'.op = "encrypt_multiple_files"
           /\ ret'.files = <<TooBig>>) =>
            /\ ~ret'.ok /\ ret'.why = "File too large"
            /\ client' = client /\ disk' = disk /\ issued' = issued]_vars

C18_Witness ==
    /\ ret.op = "encrypt_attachment" /\ ~ret.ok
    /\ ret.size = MaxAttachmentSize + 1
    /\ Len(envs) >= 1 /\ envs[1].att.original_size = MaxAttachmentSize

\* C19: encrypt_multiple_files stops at the first file that fails: it raises
\* that file's error, returns no list, and has obtained keys only for the
\* files before it.
C19_BatchStopsAtFirstFailure ==
    (ret.op = "encrypt_multiple_files" /\ FirstFailing(ret.files) # 0) =>
        LET k == FirstFailing(ret.files)
        IN /\ ~ret.ok /\ ret.err = "ValueError"
           /\ ret.why = (IF ret.files[k].exists THEN "File too large"
                         ELSE "File not found")
           /\ ret.atts = <<>>
           /\ Len(ret.keys) = k - 1

C19_Witness ==
    /\ ret.op = "encrypt_multiple_files" /\ ~ret.ok
    /\ Len(ret.files) = 3 /\ FirstFailing(ret.files) = 2
    /\ Len(ret.keys) = 1

\* C20: decrypt_attachment of what encrypt_attachment (or encrypt_file) made
\* returns the filename, the content type and, byte for byte, the content it
\* was made from, at every level and for every size up to the ceiling.
C20_BinaryRoundTrip ==
    ret.op = "decrypt_attachment" =>
        /\ ret.res.ok
        /\ ret.res.att.filename = envs[ret.idx].name
        /\ ret.res.att.content_type = GuessType(envs[ret.idx].name)
        /\ ret.res.att.content = envs[ret.idx].msg

C20_Witness ==
    /\ ret.op = "decrypt_attachment" /\ ret.res.ok
    /\ envs[ret.idx].att.security_level = "QUANTUM_OTP"
    /\ Len(envs[ret.idx].msg) = MaxAttachmentSize
    /\ \E i \in 1..Len(envs[ret.idx].msg) : envs[ret.idx].msg[i] >= 128

(***************************************************************************)
(* Claims about the mail body.                                             *)
(***************************************************************************)

\* C27: the package written as JSON into the body after the notice, and
\* taken out on receipt as the text from the first '{' to the last '}', is
\* the package that was sent, and decrypts to the message that was sent.
C27_BodyRoundTrip ==
    ret.op = "receive" =>
        /\ ret.found
        /\ ret.json = PackageJson(envs[ret.idx].pkg)
        /\ ret.pkg = envs[ret.idx].pkg
        /\ ret.res.ok
        /\ ret.res.val = envs[ret.idx].msg

\* the same for messages whose notice holds no '{'
BodyRoundTripPlainNames ==
    (ret.op = "receive"
        /\ \A a \in 1..Len(envs[ret.idx].atts) :
              StrFind(envs[ret.idx].atts[a].filename, 123) = -1) =>
        /\ ret.found
        /\ ret.json = PackageJson(envs[ret.idx].pkg)
        /\ ret.pkg = envs[ret.idx].pkg
        /\ ret.res.ok
        /\ ret.res.val = envs[ret.idx].msg

====
